---- MODULE Spec2Model ----
(***************************************************************************)
(* A model of the streaming-session state machine of the PromptQL chat     *)
(* SDK: the useSSEConnection hook (src/src/lib/hooks/useSSEConnection.ts)  *)
(* and the PromptQLChat component that drives it (src/unnamed/part_005).   *)
(*                                                                         *)
(* Execution model.  The code runs on one JavaScript event loop under      *)
(* React 18:                                                               *)
(*   - a task (a user event, a timer, a network event together with the    *)
(*     promise continuation it resolves) runs to its next await without    *)
(*     interruption, and its state updates are batched into one render;    *)
(*   - a promise that a task resolved for some OTHER awaiter (the read     *)
(*     that reader.cancel() resolves with done) leaves a microtask that    *)
(*     runs before any further task;                                       *)
(*   - a passive effect whose condition a render made true runs before     *)
(*     any further task.                                                   *)
(* Each task, microtask and effect is one action.                          *)
(*                                                                         *)
(* Text is modelled as a sequence of characters over a small alphabet:     *)
(*   "d"   the six characters `data: ` (the SSE data-field prefix)         *)
(*   "#"   the sentinel `[DONE]`                                           *)
(*   "{" k "}"  the JSON text of an event of kind k                        *)
(*   "!"   text that is not JSON;  " " a blank;  "\n" a line feed          *)
(***************************************************************************)
EXTENDS Integers, Sequences, FiniteSets, TLC

\* ---------------------------------------------------------------- bounds
\* interactions of a thread that is converted (SpecConvert)
MaxInteractions == 3
\* events applied to one message list (SpecReducer)
MaxEvents == 3
\* lines in a response body that is read whole (SpecRead)
MaxLines == 3
\* connect() calls that pass validation (streams opened) per behaviour
MaxStreams == 2
\* chunks the network delivers on one stream
MaxReads == 2
\* operations the caller performs (SpecSSE: connect and disconnect calls)
MaxOps == 3
\* calls of getThread by the restore effect
MaxRestores == 2
\* mounts of useThreadPersistence over one localStorage, and calls of setCurrentThreadId
MaxMounts == 2
MaxSets == 1

VARIABLES
  sse,          \* the hook's state and refs: connectionState, error, isCancellingRef, readerRef, timers
  streams,      \* one record per fetch issued by connect(): the response, its reader and its read loop
  fetchCount,   \* network requests issued by connect(), and by getThread in a restoration
  ops,          \* operations the caller has performed so far
  lastAction,   \* history: the step taken last
  lastArg,      \* history: its argument (a thread id, a text, an outcome), as a sequence
  chat,         \* PromptQLChat's useState values
  api,          \* usePromptQLAPI: its error state and the calls in flight
  persist,      \* useThreadPersistence: currentThreadId and the localStorage entry
  hist,         \* history of the component: what the claims speak about
  wire,         \* one response body taken alone: its bytes, how many were read, what was dispatched
  reducer,      \* handleSSEEvent taken alone: the list it started from, the events applied, the list now
  restored,     \* convertThreadToMessages taken alone: the thread and the messages returned
  shown,        \* the error prop taken alone: the error sources and the object handed to ChatInterface
  request,      \* one call of usePromptQLAPI taken alone: its arguments, its fetch attempts, its result
  mount         \* useThreadPersistence taken alone: localStorage and currentThreadId

sseVars == <<sse, streams, fetchCount>>
chatVars == <<chat, api, persist, hist>>
pureVars == <<wire, reducer, restored, shown, request, mount>>
vars ==
  <<sse, streams, fetchCount, ops, lastAction, lastArg, chat, api, persist, hist,
    wire, reducer, restored, shown, request, mount>>

\* ------------------------------------------------------------ thread ids
HyphenAt == {9, 14, 19, 24}

MkId(c) == [i \in 1..36 |-> IF i \in HyphenAt THEN "-" ELSE c]

IdLower == MkId("a")
IdDigit == MkId("0")
IdUpper == MkId("A")
IdNonHex == MkId("g")
IdShort == SubSeq(IdLower, 1, 35)
IdLong == Append(IdLower, "a")
IdNoHyphen == [IdLower EXCEPT ![9] = "a"]
IdEmpty == <<>>

ThreadIds == {IdLower, IdDigit, IdUpper, IdNonHex, IdShort, IdLong, IdNoHyphen, IdEmpty}

\* [0-9a-f] under the regex's i flag
HexClass == {"0", "9", "a", "f", "A", "F"}

isValidThreadId_anyLength(threadId) ==
  /\ Len(threadId) >= 35
  /\ \A i \in 1..Len(threadId) :
       IF i \in HyphenAt THEN threadId[i] \in HexClass \cup {"-"} ELSE threadId[i] \in HexClass

\* /^[0-9a-f]{8}-[0-9a-f]{4}-[0-9a-f]{4}-[0-9a-f]{4}-[0-9a-f]{12}$/i
isValidThreadId(threadId) ==
  /\ Len(threadId) = 36
  /\ \A i \in 1..36 :
       IF i \in HyphenAt THEN threadId[i] = "-" ELSE threadId[i] \in HexClass

\* ------------------------------------------------------------------ text
Blank == {" "}

RECURSIVE trimStart(_)
trimStart(s) == IF s # <<>> /\ Head(s) \in Blank THEN trimStart(Tail(s)) ELSE s

RECURSIVE trimEnd(_)
trimEnd(s) ==
  IF s # <<>> /\ s[Len(s)] \in Blank THEN trimEnd(SubSeq(s, 1, Len(s) - 1)) ELSE s

\* String.prototype.trim
trim(s) == trimEnd(trimStart(s))

\* buffer.split("\n"): the pieces between line feeds, the last one being the
\* text after the last line feed (empty when the buffer ends with one)
RECURSIVE split(_, _)
split(s, cur) ==
  IF s = <<>> THEN <<cur>>
  ELSE IF Head(s) = "\n" THEN <<cur>> \o split(Tail(s), <<>>)
  ELSE split(Tail(s), Append(cur, Head(s)))

EventKinds == {"t", "c", "u"}

\* JSON.parse(data) succeeds exactly on the JSON text of an event
isJSON(data) == Len(data) = 3 /\ data[1] = "{" /\ data[3] = "}" /\ data[2] \in EventKinds

\* The for loop over the complete lines of one read: the items handed to
\* handleMessage, in order, up to the line whose payload is [DONE].
\* Each item is the payload or, after the sentinel, the marker <<"#">>.
RECURSIVE scanLines(_)
scanLines(lines) ==
  IF lines = <<>> THEN <<>>
  ELSE LET trimmedLine == trim(Head(lines))
           data == Tail(trimmedLine)
       IN IF trimmedLine # <<>> /\ Head(trimmedLine) = "d" /\ trim(data) # <<>>
          THEN IF data = <<"#">> THEN <<data>>
               ELSE <<data>> \o scanLines(Tail(lines))
          ELSE scanLines(Tail(lines))

\* ------------------------------------------------- what the network sends
LineText == <<"d", "{", "t", "}", "\n">>
LineCode == <<"d", "{", "c", "}", "\n">>
LineDone == <<"d", "#", "\n">>

\* the chunks one reader.read() may resolve with
Chunks == {LineText, LineCode, LineDone \o LineText, LineDone}

FetchOutcomes == {"ok", "http_error", "null_body", "rejected"}

\* ------------------------------------------------------ useSSEConnection
NewStream ==
  [phase |-> "fetching",      \* fetching | reading (the read loop is open) | ended
   read |-> "none",           \* the promise of the loop's reader.read(): pending | done
   reads |-> 0,               \* chunks delivered so far
   buffer |-> <<>>,           \* readStream's buffer
   sawDone |-> FALSE,         \* history: a [DONE] payload was read
   orphaned |-> FALSE,        \* history: disconnect() ran while the read loop was open
   lateDispatch |-> FALSE,    \* history: a payload reached onEvent after orphaned
   doneDispatch |-> FALSE]    \* history: a payload reached onEvent after sawDone

InitSse ==
  [connectionState |-> "disconnected", error |-> "null", isCancellingRef |-> FALSE,
   readerRef |-> 0, timers |-> 0]

\* a disconnect that leaves the stored error in place
disconnect_keepsError(s) ==
  [s EXCEPT !.isCancellingRef = TRUE,
            !.readerRef = 0,
            !.connectionState = "disconnected",
            !.timers = @ + 1]

\* disconnect(): the hook's own state
disconnect(s) ==
  [s EXCEPT !.isCancellingRef = TRUE,
            !.readerRef = 0,
            !.connectionState = "disconnected",
            !.error = "null",
            !.timers = @ + 1]

\* disconnect(): readerRef.current.cancel() resolves the pending read of that
\* reader with done; every open read loop is marked as torn down (history)
cancelReader(ss, r) ==
  [i \in DOMAIN ss |->
     IF ss[i].phase = "reading"
     THEN [ss[i] EXCEPT !.orphaned = TRUE, !.read = IF i = r THEN "done" ELSE @]
     ELSE ss[i]]

\* handleOpen()
handleOpen(s) == [s EXCEPT !.connectionState = "connected", !.error = "null"]

\* connect(threadId) up to its await fetch(...)
connect(s, threadId) ==
  IF ~isValidThreadId(threadId)
  THEN [s EXCEPT !.error = "invalid_thread_id", !.connectionState = "error"]
  ELSE [disconnect(s) EXCEPT !.connectionState = "connecting", !.error = "null"]

connectStreams(ss, s, threadId) ==
  IF ~isValidThreadId(threadId) THEN ss ELSE Append(cancelReader(ss, s.readerRef), NewStream)

connectFetches(n, threadId) == IF ~isValidThreadId(threadId) THEN n ELSE n + 1

\* connect() after its fetch settles: the try block from the response on, or the catch
fetchSettled(s, i, outcome) ==
  IF outcome = "ok"
  THEN [handleOpen(s) EXCEPT !.readerRef = i]
  ELSE IF ~s.isCancellingRef
       THEN [s EXCEPT !.error = outcome, !.connectionState = "error"]
       ELSE s

\* readStream: one read resolved with a value
readItems(buffer, chunk) ==
  LET lines == split(buffer \o chunk, <<>>)
  IN scanLines(SubSeq(lines, 1, Len(lines) - 1))

readRest(buffer, chunk) ==
  LET lines == split(buffer \o chunk, <<>>)
  IN lines[Len(lines)]

hasDone(items) == items # <<>> /\ items[Len(items)] = <<"#">>

\* the payloads handed to handleMessage by one read
readPayloads(buffer, chunk) ==
  LET items == readItems(buffer, chunk)
  IN IF hasDone(items) THEN SubSeq(items, 1, Len(items) - 1) ELSE items

\* a read loop that a payload which fails to parse brings to an end
readEvents_untilMalformed(buffer, chunk) ==
  LET payloads == readPayloads(buffer, chunk)
      bad == {k \in 1..Len(payloads) : ~isJSON(payloads[k])}
      ok == IF bad = {} THEN payloads
            ELSE SubSeq(payloads, 1, (CHOOSE k \in bad : \A j \in bad : k <= j) - 1)
  IN [k \in 1..Len(ok) |-> ok[k][2]]

\* the events handleMessage hands to onEvent (the kinds of the parsed payloads)
readEvents(buffer, chunk) ==
  LET ok == SelectSeq(readPayloads(buffer, chunk), isJSON)
  IN [k \in 1..Len(ok) |-> ok[k][2]]

readValue(s, buffer, chunk) ==
  LET payloads == readPayloads(buffer, chunk)
  IN [s EXCEPT !.error = IF \E k \in 1..Len(payloads) : ~isJSON(payloads[k])
                         THEN "parse" ELSE @,
               !.connectionState = IF hasDone(readItems(buffer, chunk))
                                   THEN "disconnected" ELSE @]

\* readStream: the read resolved with done, then the finally block
readDone(s) == [s EXCEPT !.connectionState = "disconnected", !.readerRef = 0]

\* readStream: the read rejected (a network failure, never an AbortError: no
\* signal is passed to fetch), the catch block, then the finally block
readFailed(s) ==
  IF ~s.isCancellingRef
  THEN [s EXCEPT !.error = "stream", !.connectionState = "error", !.readerRef = 0]
  ELSE [s EXCEPT !.readerRef = 0]

\* a promise continuation is queued: it runs before any task
MicrotaskPending ==
  \E i \in DOMAIN streams : streams[i].phase = "reading" /\ streams[i].read = "done"

\* ---- tasks of the hook
FetchResponse(i, outcome) ==
  /\ streams[i].phase = "fetching"
  /\ sse' = fetchSettled(sse, i, outcome)
  /\ streams' = [streams EXCEPT ![i].phase = IF outcome = "ok" THEN "reading" ELSE "ended",
                                ![i].read = IF outcome = "ok" THEN "pending" ELSE "none"]
  /\ UNCHANGED fetchCount

StreamChunk(i, chunk) ==
  /\ streams[i].phase = "reading"
  /\ streams[i].read = "pending"
  /\ streams[i].reads < MaxReads
  /\ sse' = readValue(sse, streams[i].buffer, chunk)
  /\ streams' =
       [streams EXCEPT
          ![i].buffer = readRest(streams[i].buffer, chunk),
          ![i].reads = @ + 1,
          ![i].sawDone = @ \/ hasDone(readItems(streams[i].buffer, chunk)),
          ![i].lateDispatch =
             @ \/ (streams[i].orphaned /\ readEvents(streams[i].buffer, chunk) # <<>>),
          ![i].doneDispatch =
             @ \/ (streams[i].sawDone /\ readEvents(streams[i].buffer, chunk) # <<>>)]
  /\ UNCHANGED fetchCount

StreamEnd(i) ==
  /\ streams[i].phase = "reading"
  /\ streams[i].read = "pending"
  /\ sse' = readDone(sse)
  /\ streams' = [streams EXCEPT ![i].phase = "ended", ![i].read = "none"]
  /\ UNCHANGED fetchCount

StreamFail(i) ==
  /\ streams[i].phase = "reading"
  /\ streams[i].read = "pending"
  /\ sse' = readFailed(sse)
  /\ streams' = [streams EXCEPT ![i].phase = "ended", ![i].read = "none"]
  /\ UNCHANGED fetchCount

\* the microtask: the read loop observes the done that cancel() resolved
StreamCancelled(i) ==
  /\ streams[i].phase = "reading"
  /\ streams[i].read = "done"
  /\ sse' = readDone(sse)
  /\ streams' = [streams EXCEPT ![i].phase = "ended", ![i].read = "none"]
  /\ UNCHANGED fetchCount

\* the 100 ms timeout set by disconnect()
CancelTimer ==
  /\ sse.timers > 0
  /\ sse' = [sse EXCEPT !.isCancellingRef = FALSE, !.timers = @ - 1]
  /\ UNCHANGED <<streams, fetchCount>>

\* ------------------------------------------------------ useThreadPersistence
NoThread == <<>>

InitPersist == [currentThreadId |-> NoThread, stored |-> NoThread]

\* a setter that changes the state and never the storage
setCurrentThreadId_stateOnly(p, threadId) ==
  [currentThreadId |-> threadId, stored |-> p.stored]

\* setCurrentThreadId(threadId), localStorage being available
setCurrentThreadId(p, threadId) ==
  [currentThreadId |-> threadId,
   stored |-> IF threadId # NoThread
              THEN IF isValidThreadId(threadId) THEN threadId ELSE p.stored
              ELSE NoThread]

clearStoredThread(p) == setCurrentThreadId(p, NoThread)

\* ------------------------------------------------------------ usePromptQLAPI
\* A call in flight is the fetchWithRetry it awaits; it settles once, with
\* the response or with the error left after the retries.
InitApi == [error |-> "null", calls |-> <<>>]

Last(q) == q[Len(q)]

RemoveAt(q, k) == SubSeq(q, 1, k - 1) \o SubSeq(q, k + 1, Len(q))

\* startThread / continueThread / cancelThread up to the await: setError(null),
\* then the request
apiCall(a, kind, threadId) ==
  [error |-> "null",
   calls |-> Append(a.calls, [kind |-> kind, threadId |-> threadId, live |-> TRUE])]

\* the catch block of a call: setError(promptQLError)
apiFailed(a, k, err) == [error |-> err, calls |-> RemoveAt(a.calls, k)]

apiReturned(a, k) == [a EXCEPT !.calls = RemoveAt(@, k)]

\* startThread: the response carries a thread id that passes validation
startSucceeded(ok, threadId) == ok /\ threadId # <<>> /\ isValidThreadId(threadId)

\* history: a cancel or a new thread abandons the sends in flight
abandon(a) == [a EXCEPT !.calls = [k \in DOMAIN @ |-> [@[k] EXCEPT !.live = FALSE]]]

\* the thread ids a start response may carry
ServerThreadIds == {IdLower, IdShort}

\* --------------------------------------------------------------- PromptQLChat
CodeBlockIds == {"b"}

NoBlocks == [b \in CodeBlockIds |-> [present |-> FALSE, content |-> <<>>, streaming |-> FALSE]]

\* the assistant_action_id the events carry
ActionId == [src |-> "action", n |-> 0]

InitChat ==
  [messages |-> <<>>, isLoading |-> FALSE, error |-> "null", isCancelling |-> FALSE,
   hasRecentlyCancelled |-> FALSE, isCodeExecuting |-> FALSE,
   timers |-> 0]               \* pending 3 s timeouts of handleCancelMessage

\* the two orchestrators the package exports
Orchestrators == {"PromptQLChat", "usePromptQLChat"}

\* the functions taken alone are not in use
NoWire == [bytes |-> <<>>, at |-> 0, dispatched |-> <<>>, ended |-> FALSE]

NoReducer == [base |-> <<>>, events |-> <<>>, messages |-> <<>>, prev |-> <<>>, prevNow |-> <<>>]

NoRestored == [given |-> <<>>, thread |-> <<>>, messages |-> <<>>, done |-> FALSE]

NoShown == [done |-> FALSE]

NoRequest == [op |-> "none"]

NoMount == [loaded |-> FALSE]

InitHist ==
  [orchestrator |-> "none",    \* which orchestrator is mounted on the hooks
   fresh |-> "no",             \* a new thread was just started / a send followed it at once
   lateMutation |-> FALSE,     \* a torn-down stream's event changed the message list
   reported |-> "null",        \* the last request error handed to onError
   liveFailure |-> FALSE]      \* the component's error is the failure of a send
                               \* issued after the last cancel or new thread

hasCodeBlocks(m) == \E b \in CodeBlockIds : m.code_blocks[b].present

endsWith(content, chunk) ==
  /\ Len(chunk) <= Len(content)
  /\ SubSeq(content, Len(content) - Len(chunk) + 1, Len(content)) = chunk

\* a reducer that puts a later chunk in front of the content
textChunk_prepends(prevMessages, chunk, actionId) ==
  IF \/ prevMessages = <<>>
     \/ prevMessages[Len(prevMessages)].type # "assistant"
     \/ hasCodeBlocks(prevMessages[Len(prevMessages)])
     \/ prevMessages[Len(prevMessages)].query_plan
  THEN Append(prevMessages,
              [id |-> actionId, type |-> "assistant", content |-> chunk,
               code_blocks |-> NoBlocks, query_plan |-> FALSE])
  ELSE [prevMessages EXCEPT ![Len(prevMessages)].content = chunk \o @]

\* a reducer that merges text into any assistant message
textChunk_alwaysMerges(prevMessages, chunk, actionId) ==
  IF \/ prevMessages = <<>>
     \/ prevMessages[Len(prevMessages)].type # "assistant"
  THEN Append(prevMessages,
              [id |-> actionId, type |-> "assistant", content |-> chunk,
               code_blocks |-> NoBlocks, query_plan |-> FALSE])
  ELSE [prevMessages EXCEPT ![Len(prevMessages)].content = @ \o chunk]

\* handleSSEEvent, case assistant_action_message_appended, the chunk being non-empty
textChunk(prevMessages, chunk, actionId) ==
  IF \/ prevMessages = <<>>
     \/ prevMessages[Len(prevMessages)].type # "assistant"
     \/ hasCodeBlocks(prevMessages[Len(prevMessages)])
     \/ prevMessages[Len(prevMessages)].query_plan
  THEN Append(prevMessages,
              [id |-> actionId, type |-> "assistant", content |-> chunk,
               code_blocks |-> NoBlocks, query_plan |-> FALSE])
  ELSE [prevMessages EXCEPT ![Len(prevMessages)].content = @ \o chunk]

\* a reducer that appends every fragment it is given
codeChunk_alwaysAppends(prevMessages, chunk, blockId) ==
  IF prevMessages # <<>> /\ prevMessages[Len(prevMessages)].type = "assistant"
  THEN [prevMessages EXCEPT
          ![Len(prevMessages)].code_blocks[blockId] =
             [present |-> TRUE, content |-> @.content \o chunk, streaming |-> TRUE]]
  ELSE prevMessages

\* handleSSEEvent, case code_block_query_plan_appended, chunk and block id being non-empty
codeChunk(prevMessages, chunk, blockId) ==
  IF prevMessages # <<>> /\ prevMessages[Len(prevMessages)].type = "assistant"
  THEN [prevMessages EXCEPT
          ![Len(prevMessages)].code_blocks[blockId] =
             [present |-> TRUE,
              content |-> IF endsWith(@.content, chunk) THEN @.content ELSE @.content \o chunk,
              streaming |-> TRUE]]
  ELSE prevMessages

\* handleSSEEvent: the message list after one event
handleSSEEvent(prevMessages, kind) ==
  IF kind = "t" THEN textChunk(prevMessages, <<"t">>, ActionId)
  ELSE IF kind = "c" THEN codeChunk(prevMessages, <<"c">>, "b")
  ELSE prevMessages

\* handleSSEEvent on an event with its chunk: an empty chunk is falsy
handleSSEEventOf(prevMessages, event) ==
  IF event.type = "t" /\ event.chunk # <<>> THEN textChunk(prevMessages, event.chunk, ActionId)
  ELSE IF event.type = "c" /\ event.chunk # <<>> THEN codeChunk(prevMessages, event.chunk, "b")
  ELSE prevMessages

\* What prevMessages reads once the updater has returned. The text case builds
\* its result with spreads only. The fragment case copies the last message
\* with { ...lastMessage }, which shares the code_blocks object when the
\* message has one, and then assigns updatedMessage.code_blocks[code_block_id].
prevMessagesAfter(prevMessages, event) ==
  IF /\ event.type = "c" /\ event.chunk # <<>>
     /\ prevMessages # <<>>
     /\ prevMessages[Len(prevMessages)].type = "assistant"
     /\ hasCodeBlocks(prevMessages[Len(prevMessages)])
  THEN [prevMessages EXCEPT
          ![Len(prevMessages)].code_blocks =
             codeChunk(prevMessages, event.chunk, "b")[Len(prevMessages)].code_blocks]
  ELSE prevMessages

RECURSIVE applyEvents(_, _)
applyEvents(prevMessages, events) ==
  IF events = <<>> THEN prevMessages
  ELSE applyEvents(handleSSEEvent(prevMessages, Head(events)), Tail(events))

codeEventIn(events) == \E k \in 1..Len(events) : events[k] = "c"

\* handleSendMessage: the guard
sendAccepted(c, message) == trim(message) # <<>> /\ ~c.isLoading

\* the user message built from the raw input
userMessage_untrimmed(n, message) ==
  [id |-> [src |-> "user", n |-> n], type |-> "user", content |-> message,
   code_blocks |-> NoBlocks, query_plan |-> FALSE]

\* the user message built from message.trim()
userMessage(n, message) ==
  [id |-> [src |-> "user", n |-> n], type |-> "user", content |-> trim(message),
   code_blocks |-> NoBlocks, query_plan |-> FALSE]

\* handleSendMessage up to its await
handleSendMessage(c, message, n) ==
  [c EXCEPT !.isLoading = TRUE,
            !.error = "null",
            !.hasRecentlyCancelled = FALSE,
            !.messages = Append(@, userMessage(n, message))]

\* handleSendMessage: start a thread, or continue the known one
sendKind(p) == IF p.currentThreadId = NoThread THEN "start" ELSE "continue"

\* a catch block that takes the optimistic user message back
sendFailed_rollsBack(c, err) ==
  [c EXCEPT !.error = err, !.isLoading = FALSE, !.messages = SubSeq(@, 1, Len(@) - 1)]

\* handleSendMessage: the catch block
sendFailed(c, err) == [c EXCEPT !.error = err, !.isLoading = FALSE]

\* a cancel that leaves the loading flag to the loading effect
handleCancelMessage_keepsLoading(c) ==
  [c EXCEPT !.isCancelling = TRUE,
            !.hasRecentlyCancelled = TRUE,
            !.error = "null"]

\* handleCancelMessage up to its await
handleCancelMessage(c) ==
  [c EXCEPT !.isCancelling = TRUE,
            !.hasRecentlyCancelled = TRUE,
            !.isLoading = FALSE,
            !.error = "null"]

\* handleCancelMessage: sse.clearError(); sse.disconnect()
cancelSse(s) == disconnect([s EXCEPT !.error = "null"])

\* the 3 s timeout of handleCancelMessage
graceChat(c) == [c EXCEPT !.isCancelling = FALSE, !.error = "null", !.timers = @ - 1]

\* handleClearError
handleClearError(c) ==
  [c EXCEPT !.error = "null", !.isCancelling = FALSE, !.hasRecentlyCancelled = FALSE]

\* a new thread that clears the stored id only
newThreadPersist_storageOnly(p) == [p EXCEPT !.stored = NoThread]

\* handleNewThread: the thread identity
newThreadPersist(p) == setCurrentThreadId(clearStoredThread(p), NoThread)

\* handleNewThread: the component's state
handleNewThread(c) ==
  [c EXCEPT !.messages = <<>>,
            !.error = "null",
            !.isLoading = FALSE,
            !.isCancelling = FALSE,
            !.hasRecentlyCancelled = FALSE]

\* the cancellation confirmation shown while isCancelling
cancellationMessage(c) == IF c.isCancelling THEN "CancellationConfirmation" ELSE "null"

\* an error prop that shows a streaming error after a recent cancellation
errorProp_afterCancelShown(c, a, h, s) ==
  IF cancellationMessage(c) # "null" THEN cancellationMessage(c)
  ELSE IF c.error # "null" THEN c.error
  ELSE IF a.error # "null" THEN a.error
  ELSE IF h.error # "null" THEN h.error
  ELSE IF c.isCancelling THEN "null"
  ELSE s.error

\* the error prop handed to ChatInterface
errorProp(c, a, h, s) ==
  IF cancellationMessage(c) # "null" THEN cancellationMessage(c)
  ELSE IF c.error # "null" THEN c.error
  ELSE IF a.error # "null" THEN a.error
  ELSE IF h.error # "null" THEN h.error
  ELSE IF c.isCancelling \/ c.hasRecentlyCancelled THEN "null"
  ELSE s.error

\* the health check is taken to succeed
healthCheck == [error |-> "null"]

uiError == errorProp(chat, api, healthCheck, sse)

\* the effect "Manage loading state based on SSE connection": its condition
EffectDue == sse.connectionState = "disconnected" /\ (chat.isLoading \/ chat.isCodeExecuting)

loadingEffect(c) == [c EXCEPT !.isLoading = FALSE, !.isCodeExecuting = FALSE]

\* ----------------------------------------------------------- usePromptQLChat
\* The headless hook keeps messages, isLoading, isCodeExecuting and error; the
\* other fields of the record stay as constructed.

\* handleSSEEvent of the hook: the message list after one event
hookSSEEvent(prevMessages, kind) ==
  IF kind = "t" THEN textChunk(prevMessages, <<"t">>, ActionId) ELSE prevMessages

\* handleSSEEvent of the hook on an event with its chunk: a text chunk as in
\* the component, a structured fragment only sets isCodeExecuting
hookSSEEventOf(prevMessages, event) ==
  IF event.type = "t" /\ event.chunk # <<>> THEN textChunk(prevMessages, event.chunk, ActionId)
  ELSE prevMessages

RECURSIVE hookEventsOf(_, _)
hookEventsOf(prevMessages, events) ==
  IF events = <<>> THEN prevMessages
  ELSE hookEventsOf(hookSSEEventOf(prevMessages, Head(events)), Tail(events))

RECURSIVE hookEvents(_, _)
hookEvents(prevMessages, events) ==
  IF events = <<>> THEN prevMessages
  ELSE hookEvents(hookSSEEvent(prevMessages, Head(events)), Tail(events))

\* sendMessage: the guard
hookSendAccepted(message) == trim(message) # <<>>

\* sendMessage up to its await
sendMessage(c, message, n) ==
  [c EXCEPT !.isLoading = TRUE,
            !.error = "null",
            !.messages = Append(@, userMessage(n, message))]

\* sendMessage: the finally block after the try completed
sendDone(c) == [c EXCEPT !.isLoading = FALSE]

\* cancelMessage after api.cancelThread resolved
cancelMessage(c) == [c EXCEPT !.isLoading = FALSE]

\* cancelMessage: the catch block
cancelFailed(c, err) == [c EXCEPT !.error = err]

\* startNewThread: the hook's state
startNewThread(c) == [c EXCEPT !.messages = <<>>, !.error = "null"]

\* clearError
clearError(c) == [c EXCEPT !.error = "null"]

\* the effect "Handle SSE connection state changes": its condition
HookEffectDue == sse.connectionState = "disconnected" /\ chat.isCodeExecuting

codeEffect(c) == [c EXCEPT !.isCodeExecuting = FALSE]

\* onEvent as the mounted orchestrator passes it to useSSEConnection
onEvent(prevMessages, events) ==
  IF hist.orchestrator = "usePromptQLChat"
  THEN hookEvents(prevMessages, events)
  ELSE applyEvents(prevMessages, events)

\* a task may start: no microtask is queued and no effect is due
Idle ==
  /\ ~MicrotaskPending
  /\ IF hist.orchestrator = "usePromptQLChat" THEN ~HookEffectDue ELSE ~EffectDue

InComponent == hist.orchestrator = "PromptQLChat"

InHook == hist.orchestrator = "usePromptQLChat"

pendingSends == Cardinality({k \in DOMAIN api.calls : api.calls[k].kind # "cancel"})

\* ---- the hook driven directly by its caller
SseConnect ==
  /\ UNCHANGED pureVars
  /\ UNCHANGED chatVars
  /\ ~MicrotaskPending
  /\ ops < MaxOps
  /\ \E threadId \in ThreadIds :
       /\ isValidThreadId(threadId) => Len(streams) < MaxStreams
       /\ sse' = connect(sse, threadId)
       /\ streams' = connectStreams(streams, sse, threadId)
       /\ fetchCount' = connectFetches(fetchCount, threadId)
       /\ lastArg' = threadId
  /\ lastAction' = "connect"
  /\ ops' = ops + 1

SseDisconnect ==
  /\ UNCHANGED pureVars
  /\ UNCHANGED chatVars
  /\ ~MicrotaskPending
  /\ ops < MaxOps
  /\ sse' = disconnect(sse)
  /\ streams' = cancelReader(streams, sse.readerRef)
  /\ ops' = ops + 1
  /\ lastAction' = "disconnect"
  /\ lastArg' = <<lastAction>>
  /\ UNCHANGED fetchCount

SseFetchResponse ==
  /\ UNCHANGED pureVars
  /\ UNCHANGED chatVars
  /\ ~MicrotaskPending
  /\ \E i \in DOMAIN streams, outcome \in FetchOutcomes :
       FetchResponse(i, outcome) /\ lastArg' = <<outcome>>
  /\ lastAction' = "FetchResponse"
  /\ UNCHANGED ops

SseStreamChunk ==
  /\ UNCHANGED pureVars
  /\ UNCHANGED chatVars
  /\ ~MicrotaskPending
  /\ \E i \in DOMAIN streams, chunk \in Chunks : StreamChunk(i, chunk)
  /\ lastAction' = "StreamChunk"
  /\ lastArg' = <<>>
  /\ UNCHANGED ops

SseStreamEnd ==
  /\ UNCHANGED pureVars
  /\ UNCHANGED chatVars
  /\ ~MicrotaskPending
  /\ \E i \in DOMAIN streams : StreamEnd(i)
  /\ lastAction' = "StreamEnd"
  /\ lastArg' = <<>>
  /\ UNCHANGED ops

SseStreamFail ==
  /\ UNCHANGED pureVars
  /\ UNCHANGED chatVars
  /\ ~MicrotaskPending
  /\ \E i \in DOMAIN streams :
       StreamFail(i) /\ lastArg' = <<IF streams[i].orphaned THEN "orphaned" ELSE "live">>
  /\ lastAction' = "StreamFail"
  /\ UNCHANGED ops

SseStreamCancelled ==
  /\ UNCHANGED pureVars
  /\ UNCHANGED chatVars
  /\ \E i \in DOMAIN streams : StreamCancelled(i)
  /\ lastAction' = "StreamCancelled"
  /\ lastArg' = <<>>
  /\ UNCHANGED ops

SseCancelTimer ==
  /\ UNCHANGED pureVars
  /\ UNCHANGED chatVars
  /\ ~MicrotaskPending
  /\ CancelTimer
  /\ lastAction' = "CancelTimer"
  /\ lastArg' = <<>>
  /\ UNCHANGED ops

InitSSE ==
  /\ sse = InitSse
  /\ streams = <<>>
  /\ fetchCount = 0
  /\ ops = 0
  /\ lastAction = "init"
  /\ lastArg = <<>>
  /\ chat = InitChat
  /\ api = InitApi
  /\ persist = InitPersist
  /\ hist = InitHist
  /\ wire = NoWire
  /\ reducer = NoReducer
  /\ restored = NoRestored
  /\ shown = NoShown
  /\ request = NoRequest
  /\ mount = NoMount

NextSSE ==
  \/ SseConnect
  \/ SseDisconnect
  \/ SseFetchResponse
  \/ SseStreamChunk
  \/ SseStreamEnd
  \/ SseStreamFail
  \/ SseStreamCancelled
  \/ SseCancelTimer

SpecSSE == InitSSE /\ [][NextSSE]_vars

\* ---- the hook driven by PromptQLChat
\* what the user may type
Texts == {<<>>, <<" ">>, <<"h">>, <<" ", "h", " ">>}

stale(h) == [h EXCEPT !.fresh = "no"]

\* history: the component's error was reset
errorReset(h) == [h EXCEPT !.liveFailure = FALSE]

\* onError(err), the host having passed an onError callback: called by the
\* catch blocks of the orchestrators and by the component's effect on api.error
reportError(h, err) == [h EXCEPT !.reported = err]

\* history after a request settled
\* the user submits the input
ChatSend ==
  /\ UNCHANGED pureVars
  /\ InComponent
  /\ Idle
  /\ ops < MaxOps
  /\ \E message \in Texts :
       /\ lastArg' = message
       /\ IF sendAccepted(chat, message)
          THEN /\ Len(streams) + pendingSends < MaxStreams
               /\ chat' = handleSendMessage(chat, message, ops)
               /\ api' = apiCall(api, sendKind(persist), persist.currentThreadId)
               /\ hist' = [errorReset(hist) EXCEPT !.fresh = IF @ = "new_had_thread" THEN "sent_had_thread"
                                                 ELSE IF @ = "new_no_thread" THEN "sent_no_thread"
                                                 ELSE "no"]
               /\ lastAction' = "Send"
          ELSE /\ UNCHANGED <<chat, api>>
               /\ hist' = stale(hist)
               /\ lastAction' = "send_ignored"
  /\ ops' = ops + 1
  /\ UNCHANGED <<sse, streams, fetchCount, persist>>

\* the user presses cancel
ChatCancel ==
  /\ UNCHANGED pureVars
  /\ InComponent
  /\ Idle
  /\ ops < MaxOps
  /\ chat' = IF persist.currentThreadId = NoThread
             THEN [handleCancelMessage(chat) EXCEPT !.timers = @ + 1]
             ELSE handleCancelMessage(chat)
  /\ api' = IF persist.currentThreadId = NoThread
            THEN abandon([api EXCEPT !.error = "null"])
            ELSE apiCall(abandon(api), "cancel", persist.currentThreadId)
  /\ sse' = cancelSse(sse)
  /\ streams' = cancelReader(streams, sse.readerRef)
  /\ hist' = errorReset(stale(hist))
  /\ ops' = ops + 1
  /\ lastAction' = "Cancel"
  /\ lastArg' = <<IF chat.isLoading THEN "loading" ELSE "idle">>
  /\ UNCHANGED <<fetchCount, persist>>

\* the user presses "new thread"
ChatNewThread ==
  /\ UNCHANGED pureVars
  /\ InComponent
  /\ Idle
  /\ ops < MaxOps
  /\ persist' = newThreadPersist(persist)
  /\ sse' = disconnect(sse)
  /\ streams' = cancelReader(streams, sse.readerRef)
  /\ chat' = handleNewThread(chat)
  /\ api' = abandon(api)
  /\ hist' = [errorReset(hist) EXCEPT !.fresh = IF persist.currentThreadId # NoThread /\ persist.stored # NoThread
                                    THEN "new_had_thread" ELSE "new_no_thread"]
  /\ ops' = ops + 1
  /\ lastAction' = "NewThread"
  /\ lastArg' = <<>>
  /\ UNCHANGED fetchCount

\* the user dismisses the error
ChatClearError ==
  /\ UNCHANGED pureVars
  /\ InComponent
  /\ Idle
  /\ ops < MaxOps
  /\ chat' = handleClearError(chat)
  /\ hist' = errorReset(stale(hist))
  /\ ops' = ops + 1
  /\ lastAction' = "ClearError"
  /\ lastArg' = <<>>
  /\ UNCHANGED <<sse, streams, fetchCount, api, persist>>

\* api.startThread settles and handleSendMessage resumes
ChatStartResolved ==
  /\ UNCHANGED pureVars
  /\ InComponent
  /\ Idle
  /\ \E k \in DOMAIN api.calls, ok \in BOOLEAN, threadId \in ServerThreadIds :
       /\ api.calls[k].kind = "start"
       /\ IF startSucceeded(ok, threadId)
          THEN /\ api' = apiReturned(api, k)
               /\ persist' = setCurrentThreadId(persist, threadId)
               /\ sse' = connect(sse, threadId)
               /\ streams' = connectStreams(streams, sse, threadId)
               /\ fetchCount' = connectFetches(fetchCount, threadId)
               /\ chat' = chat
               /\ lastArg' = <<"ok">>
               /\ hist' = stale(hist)
          ELSE /\ api' = apiFailed(api, k, "start_failed")
               /\ chat' = sendFailed(chat, "start_failed")
               /\ lastArg' = <<"failed">>
               /\ hist' = [reportError(stale(hist), "start_failed")
                             EXCEPT !.liveFailure = api.calls[k].live]
               /\ UNCHANGED <<persist, sse, streams, fetchCount>>
  /\ lastAction' = "StartResolved"
  /\ UNCHANGED ops

\* api.continueThread settles and handleSendMessage resumes
ChatContinueResolved ==
  /\ UNCHANGED pureVars
  /\ InComponent
  /\ Idle
  /\ \E k \in DOMAIN api.calls, ok \in BOOLEAN :
       /\ api.calls[k].kind = "continue"
       /\ IF ok
          THEN /\ api' = apiReturned(api, k)
               /\ sse' = connect(sse, api.calls[k].threadId)
               /\ streams' = connectStreams(streams, sse, api.calls[k].threadId)
               /\ fetchCount' = connectFetches(fetchCount, api.calls[k].threadId)
               /\ chat' = chat
               /\ lastArg' = <<"ok">>
               /\ hist' = stale(hist)
          ELSE /\ api' = apiFailed(api, k, "continue_failed")
               /\ chat' = sendFailed(chat, "continue_failed")
               /\ lastArg' = <<"failed">>
               /\ hist' = [reportError(stale(hist), "continue_failed")
                             EXCEPT !.liveFailure = api.calls[k].live]
               /\ UNCHANGED <<sse, streams, fetchCount>>
  /\ lastAction' = "ContinueResolved"
  /\ UNCHANGED <<ops, persist>>

\* api.cancelThread settles and handleCancelMessage resumes: the failure is
\* only logged, then the 3 s timeout is set
ChatCancelResolved ==
  /\ UNCHANGED pureVars
  /\ InComponent
  /\ Idle
  /\ \E k \in DOMAIN api.calls, ok \in BOOLEAN :
       /\ api.calls[k].kind = "cancel"
       /\ api' = IF ok THEN apiReturned(api, k) ELSE apiFailed(api, k, "cancel_failed")
       /\ lastArg' = <<IF ok THEN "ok" ELSE "failed">>
  /\ chat' = [chat EXCEPT !.timers = @ + 1]
  /\ hist' = IF lastArg' = <<"failed">> THEN reportError(stale(hist), api'.error) ELSE stale(hist)
  /\ lastAction' = "CancelResolved"
  /\ UNCHANGED <<sse, streams, fetchCount, ops, persist>>

\* the 3 s timeout of handleCancelMessage fires
ChatGraceTimer ==
  /\ UNCHANGED pureVars
  /\ InComponent
  /\ Idle
  /\ chat.timers > 0
  /\ chat' = graceChat(chat)
  /\ api' = [api EXCEPT !.error = "null"]
  /\ sse' = [sse EXCEPT !.error = "null"]
  /\ hist' = errorReset(stale(hist))
  /\ lastAction' = "GraceTimer"
  /\ lastArg' = <<>>
  /\ UNCHANGED <<streams, fetchCount, ops, persist>>

\* the loading effect runs after the render that made its condition true
ChatLoadingEffect ==
  /\ UNCHANGED pureVars
  /\ InComponent
  /\ ~MicrotaskPending
  /\ EffectDue
  /\ chat' = loadingEffect(chat)
  /\ lastAction' = "LoadingEffect"
  /\ lastArg' = <<>>
  /\ UNCHANGED <<sse, streams, fetchCount, ops, api, persist, hist>>

ChatFetchResponse ==
  /\ UNCHANGED pureVars
  /\ Idle
  /\ \E i \in DOMAIN streams, outcome \in FetchOutcomes :
       FetchResponse(i, outcome) /\ lastArg' = <<outcome>>
  /\ hist' = stale(hist)
  /\ lastAction' = "FetchResponse"
  /\ UNCHANGED <<ops, chat, api, persist>>

\* a read resolves with a chunk: handleMessage hands its events to handleSSEEvent
ChatStreamChunk ==
  /\ UNCHANGED pureVars
  /\ Idle
  /\ \E i \in DOMAIN streams, chunk \in Chunks :
       /\ StreamChunk(i, chunk)
       /\ chat' = [chat EXCEPT
                     !.messages = onEvent(@, readEvents(streams[i].buffer, chunk)),
                     !.isCodeExecuting = @ \/ codeEventIn(readEvents(streams[i].buffer, chunk))]
       /\ hist' = [hist EXCEPT
                     !.fresh = "no",
                     !.lateMutation =
                        @ \/ (/\ streams[i].orphaned
                              /\ onEvent(chat.messages, readEvents(streams[i].buffer, chunk))
                                   # chat.messages)]
  /\ lastAction' = "StreamChunk"
  /\ lastArg' = <<>>
  /\ UNCHANGED <<ops, api, persist>>

ChatStreamEnd ==
  /\ UNCHANGED pureVars
  /\ Idle
  /\ \E i \in DOMAIN streams : StreamEnd(i)
  /\ hist' = stale(hist)
  /\ lastAction' = "StreamEnd"
  /\ lastArg' = <<>>
  /\ UNCHANGED <<ops, chat, api, persist>>

ChatStreamFail ==
  /\ UNCHANGED pureVars
  /\ Idle
  /\ \E i \in DOMAIN streams :
       StreamFail(i) /\ lastArg' = <<IF streams[i].orphaned THEN "orphaned" ELSE "live">>
  /\ hist' = stale(hist)
  /\ lastAction' = "StreamFail"
  /\ UNCHANGED <<ops, chat, api, persist>>

ChatStreamCancelled ==
  /\ UNCHANGED pureVars
  /\ \E i \in DOMAIN streams : StreamCancelled(i)
  /\ lastAction' = "StreamCancelled"
  /\ lastArg' = <<>>
  /\ UNCHANGED <<ops, chat, api, persist, hist>>

ChatCancelTimer ==
  /\ UNCHANGED pureVars
  /\ Idle
  /\ CancelTimer
  /\ hist' = stale(hist)
  /\ lastAction' = "CancelTimer"
  /\ lastArg' = <<>>
  /\ UNCHANGED <<ops, chat, api, persist>>

\* ---- the hook driven by usePromptQLChat
HookSend ==
  /\ UNCHANGED pureVars
  /\ InHook
  /\ Idle
  /\ ops < MaxOps
  /\ \E message \in Texts :
       /\ lastArg' = message
       /\ IF hookSendAccepted(message)
          THEN /\ Len(streams) + pendingSends < MaxStreams
               /\ chat' = sendMessage(chat, message, ops)
               /\ api' = apiCall(api, sendKind(persist), persist.currentThreadId)
               /\ hist' = [hist EXCEPT !.fresh = IF @ = "new_had_thread" THEN "sent_had_thread"
                                                 ELSE IF @ = "new_no_thread" THEN "sent_no_thread"
                                                 ELSE "no"]
               /\ lastAction' = "Send"
          ELSE /\ UNCHANGED <<chat, api>>
               /\ hist' = stale(hist)
               /\ lastAction' = "send_ignored"
  /\ ops' = ops + 1
  /\ UNCHANGED <<sse, streams, fetchCount, persist>>

\* api.startThread settles and sendMessage resumes, through its finally
HookStartResolved ==
  /\ UNCHANGED pureVars
  /\ InHook
  /\ Idle
  /\ \E k \in DOMAIN api.calls, ok \in BOOLEAN, threadId \in ServerThreadIds :
       /\ api.calls[k].kind = "start"
       /\ IF startSucceeded(ok, threadId)
          THEN /\ api' = apiReturned(api, k)
               /\ persist' = setCurrentThreadId(persist, threadId)
               /\ sse' = connect(sse, threadId)
               /\ streams' = connectStreams(streams, sse, threadId)
               /\ fetchCount' = connectFetches(fetchCount, threadId)
               /\ chat' = sendDone(chat)
               /\ lastArg' = <<"ok">>
          ELSE /\ api' = apiFailed(api, k, "start_failed")
               /\ chat' = sendFailed(chat, "start_failed")
               /\ lastArg' = <<"failed">>
               /\ UNCHANGED <<persist, sse, streams, fetchCount>>
  /\ hist' = IF lastArg' = <<"failed">> THEN reportError(stale(hist), api'.error) ELSE stale(hist)
  /\ lastAction' = "StartResolved"
  /\ UNCHANGED ops

\* api.continueThread settles and sendMessage resumes, through its finally
HookContinueResolved ==
  /\ UNCHANGED pureVars
  /\ InHook
  /\ Idle
  /\ \E k \in DOMAIN api.calls, ok \in BOOLEAN :
       /\ api.calls[k].kind = "continue"
       /\ IF ok
          THEN /\ api' = apiReturned(api, k)
               /\ sse' = connect(sse, api.calls[k].threadId)
               /\ streams' = connectStreams(streams, sse, api.calls[k].threadId)
               /\ fetchCount' = connectFetches(fetchCount, api.calls[k].threadId)
               /\ chat' = sendDone(chat)
               /\ lastArg' = <<"ok">>
          ELSE /\ api' = apiFailed(api, k, "continue_failed")
               /\ chat' = sendFailed(chat, "continue_failed")
               /\ lastArg' = <<"failed">>
               /\ UNCHANGED <<sse, streams, fetchCount>>
  /\ hist' = IF lastArg' = <<"failed">> THEN reportError(stale(hist), api'.error) ELSE stale(hist)
  /\ lastAction' = "ContinueResolved"
  /\ UNCHANGED <<ops, persist>>

\* cancelMessage up to its await: nothing but the request, and only with a thread id
HookCancel ==
  /\ UNCHANGED pureVars
  /\ InHook
  /\ Idle
  /\ ops < MaxOps
  /\ IF persist.currentThreadId = NoThread
     THEN /\ api' = api
          /\ lastAction' = "cancel_ignored"
     ELSE /\ api' = apiCall(api, "cancel", persist.currentThreadId)
          /\ lastAction' = "Cancel"
  /\ lastArg' = <<IF chat.isLoading THEN "loading" ELSE "idle">>
  /\ hist' = stale(hist)
  /\ ops' = ops + 1
  /\ UNCHANGED <<sse, streams, fetchCount, chat, persist>>

\* api.cancelThread settles and cancelMessage resumes
HookCancelResolved ==
  /\ UNCHANGED pureVars
  /\ InHook
  /\ Idle
  /\ \E k \in DOMAIN api.calls, ok \in BOOLEAN :
       /\ api.calls[k].kind = "cancel"
       /\ IF ok
          THEN /\ api' = apiReturned(api, k)
               /\ sse' = disconnect(sse)
               /\ streams' = cancelReader(streams, sse.readerRef)
               /\ chat' = cancelMessage(chat)
               /\ lastArg' = <<"ok">>
          ELSE /\ api' = apiFailed(api, k, "cancel_failed")
               /\ chat' = cancelFailed(chat, "cancel_failed")
               /\ lastArg' = <<"failed">>
               /\ UNCHANGED <<sse, streams>>
  /\ hist' = IF lastArg' = <<"failed">> THEN reportError(stale(hist), api'.error) ELSE stale(hist)
  /\ lastAction' = "CancelResolved"
  /\ UNCHANGED <<fetchCount, ops, persist>>

HookNewThread ==
  /\ UNCHANGED pureVars
  /\ InHook
  /\ Idle
  /\ ops < MaxOps
  /\ persist' = newThreadPersist(persist)
  /\ sse' = disconnect(sse)
  /\ streams' = cancelReader(streams, sse.readerRef)
  /\ chat' = startNewThread(chat)
  /\ hist' = [hist EXCEPT !.fresh = IF persist.currentThreadId # NoThread /\ persist.stored # NoThread
                                    THEN "new_had_thread" ELSE "new_no_thread"]
  /\ ops' = ops + 1
  /\ lastAction' = "NewThread"
  /\ lastArg' = <<>>
  /\ UNCHANGED <<fetchCount, api>>

HookClearError ==
  /\ UNCHANGED pureVars
  /\ InHook
  /\ Idle
  /\ ops < MaxOps
  /\ chat' = clearError(chat)
  /\ hist' = stale(hist)
  /\ ops' = ops + 1
  /\ lastAction' = "ClearError"
  /\ lastArg' = <<>>
  /\ UNCHANGED <<sse, streams, fetchCount, api, persist>>

\* the hook's effect runs after the render that made its condition true
HookCodeEffect ==
  /\ UNCHANGED pureVars
  /\ InHook
  /\ ~MicrotaskPending
  /\ HookEffectDue
  /\ chat' = codeEffect(chat)
  /\ lastAction' = "CodeEffect"
  /\ lastArg' = <<>>
  /\ UNCHANGED <<sse, streams, fetchCount, ops, api, persist, hist>>

\* the application mounts one of the two orchestrators
Init ==
  /\ sse = InitSse
  /\ streams = <<>>
  /\ fetchCount = 0
  /\ ops = 0
  /\ lastAction = "init"
  /\ lastArg = <<>>
  /\ chat = InitChat
  /\ api = InitApi
  /\ persist = InitPersist
  /\ \E o \in Orchestrators : hist = [InitHist EXCEPT !.orchestrator = o]
  /\ wire = NoWire
  /\ reducer = NoReducer
  /\ restored = NoRestored
  /\ shown = NoShown
  /\ request = NoRequest
  /\ mount = NoMount

Next ==
  \/ ChatSend
  \/ ChatCancel
  \/ ChatNewThread
  \/ ChatClearError
  \/ ChatStartResolved
  \/ ChatContinueResolved
  \/ ChatCancelResolved
  \/ ChatGraceTimer
  \/ ChatLoadingEffect
  \/ ChatFetchResponse
  \/ ChatStreamChunk
  \/ ChatStreamEnd
  \/ ChatStreamFail
  \/ ChatStreamCancelled
  \/ ChatCancelTimer
  \/ HookSend
  \/ HookStartResolved
  \/ HookContinueResolved
  \/ HookCancel
  \/ HookCancelResolved
  \/ HookNewThread
  \/ HookClearError
  \/ HookCodeEffect

Spec == Init /\ [][Next]_vars

\* ---- one response body read whole, in every split into reads
\* PromptQLChat has sent a message, the thread was started, the event fetch
\* answered ok and the 100 ms timer of connect()'s disconnect() has fired.
LineBad == <<"d", "!", "\n">>

\* text that is not yet terminated by a line feed
Unterminated == <<"d", "{", "t", "}">>

WireLines == {LineText, LineCode, LineBad, LineDone, Unterminated}

RECURSIVE Bodies(_)
Bodies(n) ==
  IF n = 0 THEN {<<>>}
  ELSE {b \o l : b \in Bodies(n - 1), l \in WireLines} \cup Bodies(n - 1)

InitRead ==
  /\ sse = [fetchSettled(connect(InitSse, IdLower), 1, "ok")
              EXCEPT !.isCancellingRef = FALSE, !.timers = 0]
  /\ streams = <<[NewStream EXCEPT !.phase = "reading", !.read = "pending"]>>
  /\ fetchCount = 1
  /\ ops = 1
  /\ lastAction = "CancelTimer"
  /\ lastArg = <<>>
  /\ chat = loadingEffect(handleSendMessage(InitChat, <<"h">>, 0))
  /\ api = InitApi
  /\ persist = setCurrentThreadId(InitPersist, IdLower)
  /\ hist = [InitHist EXCEPT !.orchestrator = "PromptQLChat"]
  /\ \E b \in Bodies(MaxLines) \ {<<>>} :
       wire = [bytes |-> b, at |-> 0, dispatched |-> <<>>, ended |-> FALSE]
  /\ reducer = NoReducer
  /\ restored = NoRestored
  /\ shown = NoShown
  /\ request = NoRequest
  /\ mount = NoMount

\* reader.read() resolves with the next n bytes of the body
ReadWire ==
  /\ Idle
  /\ streams[1].phase = "reading"
  /\ streams[1].read = "pending"
  /\ \E n \in 1..(Len(wire.bytes) - wire.at) :
       LET chunk == SubSeq(wire.bytes, wire.at + 1, wire.at + n)
           buffer == streams[1].buffer
       IN /\ sse' = readValue(sse, buffer, chunk)
          /\ streams' =
               [streams EXCEPT
                  ![1].buffer = readRest(buffer, chunk),
                  ![1].reads = @ + 1,
                  ![1].sawDone = @ \/ hasDone(readItems(buffer, chunk)),
                  ![1].doneDispatch = @ \/ (streams[1].sawDone /\ readEvents(buffer, chunk) # <<>>)]
          /\ chat' = [chat EXCEPT
                        !.messages = onEvent(@, readEvents(buffer, chunk)),
                        !.isCodeExecuting = @ \/ codeEventIn(readEvents(buffer, chunk))]
          /\ wire' = [wire EXCEPT !.at = @ + n,
                                  !.dispatched = @ \o readEvents(buffer, chunk)]
  /\ lastAction' = "ReadWire"
  /\ lastArg' = <<>>
  /\ UNCHANGED <<fetchCount, ops, api, persist, hist, reducer, restored, shown, request, mount>>

\* reader.read() resolves with done after the last byte
ReadEnd ==
  /\ Idle
  /\ wire.at = Len(wire.bytes)
  /\ StreamEnd(1)
  /\ wire' = [wire EXCEPT !.ended = TRUE]
  /\ lastAction' = "StreamEnd"
  /\ lastArg' = <<>>
  /\ UNCHANGED <<ops, chat, api, persist, hist, reducer, restored, shown, request, mount>>

NextRead ==
  \/ ReadWire
  \/ ReadEnd
  \/ ChatLoadingEffect

SpecRead == InitRead /\ [][NextRead]_vars

\* ---- handleSSEEvent taken alone
ChunkTexts == {<<>>, <<"a">>, <<"b">>, <<"a", "b">>}

Events == [type : EventKinds, chunk : ChunkTexts]

AssistantWith(content, block, plan) ==
  [id |-> ActionId, type |-> "assistant", content |-> content,
   code_blocks |-> [b \in CodeBlockIds |->
                      [present |-> block # <<>>, content |-> block, streaming |-> FALSE]],
   query_plan |-> plan]

\* the lists the reducer may start from
BaseLists ==
  {<<>>,
   <<userMessage(0, <<"h">>)>>,
   <<userMessage(0, <<"h">>), AssistantWith(<<"t">>, <<>>, FALSE)>>,
   <<AssistantWith(<<"t">>, <<"a">>, FALSE)>>,
   <<AssistantWith(<<"t">>, <<>>, TRUE)>>}

InitReducer ==
  /\ sse = InitSse
  /\ streams = <<>>
  /\ fetchCount = 0
  /\ ops = 0
  /\ lastAction = "init"
  /\ lastArg = <<>>
  /\ chat = InitChat
  /\ api = InitApi
  /\ persist = InitPersist
  /\ hist = InitHist
  /\ wire = NoWire
  /\ \E base \in BaseLists :
       reducer = [base |-> base, events |-> <<>>, messages |-> base,
                  prev |-> <<>>, prevNow |-> <<>>]
  /\ restored = NoRestored
  /\ shown = NoShown
  /\ request = NoRequest
  /\ mount = NoMount

\* setMessages((prevMessages) => ...) of one event
ReduceEvent ==
  /\ Len(reducer.events) < MaxEvents
  /\ \E event \in Events :
       reducer' = [reducer EXCEPT !.events = Append(@, event),
                                  !.messages = handleSSEEventOf(@, event),
                                  !.prev = reducer.messages,
                                  !.prevNow = prevMessagesAfter(reducer.messages, event)]
  /\ lastAction' = "ReduceEvent"
  /\ UNCHANGED <<sse, streams, fetchCount, ops, lastArg, chat, api, persist, hist, wire, restored, shown, request, mount>>

NextReducer == ReduceEvent

SpecReducer == InitReducer /\ [][NextReducer]_vars

\* ---- convertThreadToMessages taken alone
\* An interaction: created_at as a time, whether it has a user message, and
\* its assistant side in one of the two formats the function accepts: the
\* assistant_messages array, or the assistant_actions array of the API, whose
\* entries count when they have a message and are completed.
Times == 1..MaxInteractions

AssistantSides ==
  {[format |-> "assistant_messages", entries |-> <<>>],
   [format |-> "assistant_messages", entries |-> <<"completed">>],
   [format |-> "assistant_messages", entries |-> <<"completed", "completed">>],
   [format |-> "assistant_actions", entries |-> <<"pending", "completed">>]}

Interactions == [created_at : Times, user_message : BOOLEAN, assistant : AssistantSides]

RECURSIVE Threads(_)
Threads(n) ==
  IF n = 0 THEN {<<>>}
  ELSE {Append(t, i) : t \in Threads(n - 1), i \in Interactions} \cup Threads(n - 1)

restoredMessage(interaction, k, type) ==
  [id |-> [src |-> "thread", n |-> 10 * interaction.created_at + k], type |-> type,
   content |-> IF type = "user" THEN <<"h">> ELSE <<"t">>,
   code_blocks |-> NoBlocks, query_plan |-> FALSE]

\* the messages pushed for one interaction
interactionMessages(interaction) ==
  LET side == interaction.assistant
      kept == {k \in DOMAIN side.entries :
                 side.format = "assistant_messages" \/ side.entries[k] = "completed"}
      pick[k \in 0..Len(side.entries)] ==
        IF k = 0 THEN <<>>
        ELSE IF k \in kept THEN Append(pick[k - 1], restoredMessage(interaction, k, "assistant"))
        ELSE pick[k - 1]
  IN (IF interaction.user_message THEN <<restoredMessage(interaction, 0, "user")>> ELSE <<>>)
       \o pick[Len(side.entries)]

\* Array.prototype.sort with (a, b) => a.created_at - b.created_at: stable
RECURSIVE insertSorted(_, _)
insertSorted(sorted, x) ==
  IF sorted = <<>> THEN <<x>>
  ELSE IF Last(sorted).created_at <= x.created_at THEN Append(sorted, x)
  ELSE Append(insertSorted(SubSeq(sorted, 1, Len(sorted) - 1), x), Last(sorted))

\* a conversion that takes the interactions in the order given
sortedInteractions_asGiven(interactions) == interactions

RECURSIVE sortedInteractions(_)
sortedInteractions(interactions) ==
  IF interactions = <<>> THEN <<>>
  ELSE insertSorted(sortedInteractions(SubSeq(interactions, 1, Len(interactions) - 1)),
                    Last(interactions))

RECURSIVE flattenMessages(_)
flattenMessages(interactions) ==
  IF interactions = <<>> THEN <<>>
  ELSE interactionMessages(Head(interactions)) \o flattenMessages(Tail(interactions))

convertThreadToMessages(thread) == flattenMessages(sortedInteractions(thread))

InitConvert ==
  /\ sse = InitSse
  /\ streams = <<>>
  /\ fetchCount = 0
  /\ ops = 0
  /\ lastAction = "init"
  /\ lastArg = <<>>
  /\ chat = InitChat
  /\ api = InitApi
  /\ persist = InitPersist
  /\ hist = InitHist
  /\ wire = NoWire
  /\ reducer = NoReducer
  /\ shown = NoShown
  /\ request = NoRequest
  /\ mount = NoMount
  /\ \E t \in Threads(MaxInteractions) :
       restored = [given |-> t, thread |-> t, messages |-> <<>>, done |-> FALSE]

\* convertThreadToMessages(thread): the sort works on a copy of thread.interactions
Convert ==
  /\ ~restored.done
  /\ restored' = [restored EXCEPT !.messages = convertThreadToMessages(restored.thread),
                                  !.done = TRUE]
  /\ lastAction' = "Convert"
  /\ UNCHANGED <<sse, streams, fetchCount, ops, lastArg, chat, api, persist, hist, wire, reducer, shown, request, mount>>

NextConvert == Convert

SpecConvert == InitConvert /\ [][NextConvert]_vars

\* ---- the error prop taken alone
\* no orchestrator is mounted and no request is under way
NothingMounted ==
  /\ sse = InitSse
  /\ streams = <<>>
  /\ fetchCount = 0
  /\ ops = 0
  /\ lastAction = "init"
  /\ lastArg = <<>>
  /\ chat = InitChat
  /\ api = InitApi
  /\ persist = InitPersist
  /\ hist = InitHist

\* an error source holds an error object or null
ErrorOr(err) == {"null", err}

InitError ==
  /\ NothingMounted
  /\ wire = NoWire
  /\ reducer = NoReducer
  /\ restored = NoRestored
  /\ request = NoRequest
  /\ mount = NoMount
  /\ \E c \in BOOLEAN, r \in BOOLEAN,
        e \in ErrorOr("local_error"), a \in ErrorOr("api_error"),
        h \in ErrorOr("health_error"), s \in ErrorOr("sse_error") :
       shown = [isCancelling |-> c, hasRecentlyCancelled |-> r, error |-> e,
                api |-> [error |-> a], healthCheck |-> [error |-> h], sse |-> [error |-> s],
                prop |-> "null", done |-> FALSE]

\* one render of PromptQLChat: the error prop is computed
Render ==
  /\ ~shown.done
  /\ shown' = [shown EXCEPT !.prop = errorProp(shown, shown.api, shown.healthCheck, shown.sse),
                            !.done = TRUE]
  /\ lastAction' = "Render"
  /\ UNCHANGED <<sse, streams, fetchCount, ops, lastArg, chat, api, persist, hist,
                 wire, reducer, restored, request, mount>>

NextError == Render

SpecError == InitError /\ [][NextError]_vars

\* ---- PromptQLChat mounted with a thread id in localStorage
\* the stored values that the load effect of useThreadPersistence adopts
AdoptedIds == {id \in ThreadIds : id # <<>> /\ isValidThreadId(id)}

\* what api.getThread may return: a thread, or nothing when it throws
Restorable == Threads(1)

InitRestore ==
  /\ sse = InitSse
  /\ streams = <<>>
  /\ fetchCount = 0
  /\ ops = 0
  /\ lastAction = "init"
  /\ lastArg = <<>>
  /\ chat = InitChat
  /\ api = InitApi
  /\ \E id \in AdoptedIds : persist = [currentThreadId |-> id, stored |-> id]
  /\ hist = [InitHist EXCEPT !.orchestrator = "PromptQLChat"]
  /\ wire = NoWire
  /\ reducer = NoReducer
  /\ restored = NoRestored
  /\ shown = NoShown
  /\ request = NoRequest
  /\ mount = NoMount

\* the restore effect's condition: a thread id and no messages
RestoreDue == persist.currentThreadId # NoThread /\ chat.messages = <<>>

\* restoreThread after api.getThread resolved
restoreMessages(c, thread) ==
  IF convertThreadToMessages(thread) # <<>>
  THEN [c EXCEPT !.messages = convertThreadToMessages(thread)]
  ELSE c

\* the restore effect runs after a render and calls api.getThread, which
\* fetches the thread directly
RestoreEffect ==
  /\ UNCHANGED pureVars
  /\ InComponent
  /\ RestoreDue
  /\ fetchCount < MaxRestores
  /\ api' = apiCall(api, "get", persist.currentThreadId)
  /\ fetchCount' = fetchCount + 1
  /\ lastAction' = "RestoreEffect"
  /\ lastArg' = persist.currentThreadId
  /\ UNCHANGED <<sse, streams, ops, chat, persist, hist>>

\* api.getThread settles and restoreThread resumes; a failure has been stored
\* by getThread's catch, and the effect on api.error hands it to onError
RestoreResolved ==
  /\ UNCHANGED pureVars
  /\ InComponent
  /\ \E k \in DOMAIN api.calls :
       /\ api.calls[k].kind = "get"
       /\ \/ \E thread \in Restorable :
               /\ api' = apiReturned(api, k)
               /\ chat' = restoreMessages(chat, thread)
               /\ lastArg' = <<"ok">>
               /\ UNCHANGED <<persist, hist>>
          \/ /\ api' = apiFailed(api, k, "get_failed")
             /\ persist' = clearStoredThread(persist)
             /\ hist' = reportError(hist, "get_failed")
             /\ lastArg' = <<"failed">>
             /\ UNCHANGED chat
  /\ lastAction' = "RestoreResolved"
  /\ UNCHANGED <<sse, streams, fetchCount, ops>>

NextRestore ==
  \/ RestoreEffect
  \/ RestoreResolved
  \/ ChatClearError
  \/ ChatNewThread
  \/ ChatSend
  \/ ChatStartResolved
  \/ ChatContinueResolved
  \/ ChatLoadingEffect

SpecRestore == InitRestore /\ [][NextRestore]_vars

\* ---- one call of usePromptQLAPI taken alone
\* DEFAULT_CONFIG.MAX_RETRIES
MAX_RETRIES == 3

ApiOps == {"start", "continue", "cancel", "get"}

\* what one fetch of fetchWithRetry can end with: a response that is ok (with
\* or without a valid thread_id in it), a response that is not (401, another
\* 4xx, 429, 5xx), a rejection (a TypeError) or an abort; `mentions` tells whether the error message, which is the
\* server's or the browser's text, includes "fetch", "network" or "connection"
FetchResults ==
  {[kind |-> "ok", status |-> 200, mentions |-> FALSE],
   [kind |-> "ok_no_thread_id", status |-> 200, mentions |-> FALSE],
   [kind |-> "abort", status |-> 0, mentions |-> FALSE]}
  \cup [kind : {"rejected"}, status : {0}, mentions : BOOLEAN]
  \cup [kind : {"http"}, status : {401, 404, 429, 500}, mentions : BOOLEAN]

\* the error thrown inside the try block of fetchWithRetry
thrownError(result) ==
  IF result.kind = "abort"
  THEN [name |-> "AbortError", code |-> "none", mentions |-> result.mentions]
  ELSE IF result.kind = "rejected"
  THEN [name |-> "TypeError", code |-> "none", mentions |-> result.mentions]
  ELSE [name |-> "PromptQLError",
        code |-> IF result.status = 401 THEN "AUTHENTICATION_ERROR"
                 ELSE IF result.status = 429 THEN "RATE_LIMIT_ERROR"
                 ELSE IF result.status >= 500 THEN "SERVER_ERROR"
                 ELSE "VALIDATION_ERROR",
        mentions |-> result.mentions]

isNetworkError(error) == error.name = "NetworkError" \/ error.mentions

\* a fetchWithRetry that retries whatever the failure
retryable_always(err) == TRUE

\* fetchWithRetry's catch: the error is not rethrown at once
retryable(err) ==
  /\ ~(err.name = "AbortError" \/ ~isNetworkError(err))
  /\ err.code \notin {"AUTHENTICATION_ERROR", "VALIDATION_ERROR"}

\* the catch block of startThread / continueThread / cancelThread / getThread:
\* an error without a code becomes a NETWORK_ERROR
caughtCode(err) == IF err.code # "none" THEN err.code ELSE "NETWORK_ERROR"

\* a validation that lets a blank message through
refusal_idOnly(op, threadId, message) ==
  IF op # "start" /\ ~isValidThreadId(threadId) THEN "INVALID_THREAD" ELSE "none"

\* the checks before the request: the thread id, then the sanitized message
refusal(op, threadId, message) ==
  IF op # "start" /\ ~isValidThreadId(threadId) THEN "INVALID_THREAD"
  ELSE IF op \in {"start", "continue"} /\ trim(message) = <<>> THEN "VALIDATION_ERROR"
  ELSE "none"

NoResult == [kind |-> "none", status |-> 0, mentions |-> FALSE]

InitAPI ==
  /\ NothingMounted
  /\ wire = NoWire
  /\ reducer = NoReducer
  /\ restored = NoRestored
  /\ shown = NoShown
  /\ mount = NoMount
  /\ \E op \in ApiOps, threadId \in ThreadIds, message \in Texts :
       /\ op = "start" => threadId = NoThread
       /\ op \in {"cancel", "get"} => message = <<>>
       /\ request = [op |-> op, threadId |-> threadId, message |-> message,
                     phase |-> "called", attempt |-> 0, fetches |-> 0,
                     error |-> "null", result |-> NoResult]

\* the call up to its first await
ApiCall ==
  /\ request.phase = "called"
  /\ request' =
       IF refusal(request.op, request.threadId, request.message) # "none"
       THEN [request EXCEPT !.phase = "rejected",
                            !.error = refusal(request.op, request.threadId, request.message)]
       ELSE [request EXCEPT !.phase = "fetching", !.fetches = 1]
  /\ lastAction' = "ApiCall"
  /\ UNCHANGED <<sse, streams, fetchCount, ops, lastArg, chat, api, persist, hist,
                 wire, reducer, restored, shown, mount>>

\* fetchWithRetry after one fetch settled
afterFetch(r, result) ==
  IF result.kind = "ok" \/ (result.kind = "ok_no_thread_id" /\ r.op # "start")
  THEN [r EXCEPT !.phase = "resolved", !.result = result]
  ELSE IF result.kind = "ok_no_thread_id"
  THEN [r EXCEPT !.phase = "rejected", !.result = result, !.error = "SERVER_ERROR"]
  ELSE IF retryable(thrownError(result)) /\ r.attempt < MAX_RETRIES
  THEN [r EXCEPT !.phase = "waiting", !.result = result]
  ELSE [r EXCEPT !.phase = "rejected", !.result = result,
                 !.error = caughtCode(thrownError(result))]

\* getThread after its one fetch settled: no retry, and a response that is
\* not ok is a NETWORK_ERROR
afterGet(r, result) ==
  IF result.kind = "ok"
  THEN [r EXCEPT !.phase = "resolved", !.result = result]
  ELSE [r EXCEPT !.phase = "rejected", !.result = result,
                 !.error = IF result.kind = "http" THEN "NETWORK_ERROR"
                           ELSE IF result.kind = "ok_no_thread_id" THEN "SERVER_ERROR"
                           ELSE caughtCode(thrownError(result))]

\* the fetch of the current attempt settles
ApiFetchSettled ==
  /\ request.phase = "fetching"
  /\ \E result \in FetchResults :
       request' = IF request.op = "get" THEN afterGet(request, result)
                  ELSE afterFetch(request, result)
  /\ lastAction' = "ApiFetchSettled"
  /\ UNCHANGED <<sse, streams, fetchCount, ops, lastArg, chat, api, persist, hist,
                 wire, reducer, restored, shown, mount>>

\* the backoff delay has passed: the next attempt of the for loop
ApiRetry ==
  /\ request.phase = "waiting"
  /\ request' = [request EXCEPT !.phase = "fetching", !.attempt = @ + 1, !.fetches = @ + 1]
  /\ lastAction' = "ApiRetry"
  /\ UNCHANGED <<sse, streams, fetchCount, ops, lastArg, chat, api, persist, hist,
                 wire, reducer, restored, shown, mount>>

NextAPI ==
  \/ ApiCall
  \/ ApiFetchSettled
  \/ ApiRetry

SpecAPI == InitAPI /\ [][NextAPI]_vars

\* the call runs on: the timer of the backoff fires, and every fetch is taken
\* to settle, with a response or a rejection
SpecAPIFair == SpecAPI /\ WF_vars(ApiCall) /\ WF_vars(ApiFetchSettled) /\ WF_vars(ApiRetry)

\* ---- useThreadPersistence taken alone
\* localStorage works, or isStorageAvailable() fails, or getItem throws
Storages == {"available", "unavailable", "getItem_throws"}

InitPersistence ==
  /\ NothingMounted
  /\ wire = NoWire
  /\ reducer = NoReducer
  /\ restored = NoRestored
  /\ shown = NoShown
  /\ request = NoRequest
  /\ \E storage \in Storages, stored \in ThreadIds :
       mount = [storage |-> storage,
                p |-> [currentThreadId |-> NoThread, stored |-> stored],
                loaded |-> FALSE, mounts |-> 1, sets |-> 0]

\* a load effect that adopts whatever is stored
loadThreadId_unvalidated(storage, p) ==
  IF storage = "available" /\ p.stored # NoThread
  THEN [p EXCEPT !.currentThreadId = p.stored]
  ELSE p

\* the load effect: "Load thread ID from localStorage on mount"
loadThreadId(storage, p) ==
  IF storage = "available" /\ p.stored # NoThread /\ isValidThreadId(p.stored)
  THEN [p EXCEPT !.currentThreadId = p.stored]
  ELSE p

LoadEffect ==
  /\ ~mount.loaded
  /\ mount' = [mount EXCEPT !.p = loadThreadId(mount.storage, @), !.loaded = TRUE]
  /\ lastAction' = "LoadEffect"
  /\ lastArg' = <<>>
  /\ UNCHANGED <<sse, streams, fetchCount, ops, chat, api, persist, hist,
                 wire, reducer, restored, shown, request>>

\* setCurrentThreadId(threadId): the state always, the storage when it is available
SetThreadId ==
  /\ mount.loaded
  /\ mount.sets < MaxSets
  /\ \E threadId \in ThreadIds :
       /\ mount' = [mount EXCEPT
                      !.p = IF mount.storage = "unavailable"
                            THEN [@ EXCEPT !.currentThreadId = threadId]
                            ELSE setCurrentThreadId(@, threadId),
                      !.sets = @ + 1]
       /\ lastArg' = threadId
  /\ lastAction' = "SetThreadId"
  /\ UNCHANGED <<sse, streams, fetchCount, ops, chat, api, persist, hist,
                 wire, reducer, restored, shown, request>>

\* the page is loaded again: a new useState(null) over the same localStorage
Remount ==
  /\ mount.loaded
  /\ mount.mounts < MaxMounts
  /\ mount' = [mount EXCEPT !.p.currentThreadId = NoThread, !.loaded = FALSE, !.mounts = @ + 1]
  /\ lastAction' = "Remount"
  /\ lastArg' = <<>>
  /\ UNCHANGED <<sse, streams, fetchCount, ops, chat, api, persist, hist,
                 wire, reducer, restored, shown, request>>

NextPersistence ==
  \/ LoadEffect
  \/ SetThreadId
  \/ Remount

SpecPersistence == InitPersistence /\ [][NextPersistence]_vars

\* ================================================================ claims

\* the part of the body that has been read
Delivered == SubSeq(wire.bytes, 1, wire.at)

\* the payloads of the complete data lines of a text, up to [DONE]
PayloadsOf(text) ==
  LET lines == split(text, <<>>)
  IN scanLines(SubSeq(lines, 1, Len(lines) - 1))

\* the events among them, in order
EventsOf(text) ==
  LET ok == SelectSeq(PayloadsOf(text), isJSON)
  IN [k \in 1..Len(ok) |-> ok[k][2]]

Malformed(item) == ~isJSON(item) /\ item # <<"#">>

MalformedDelivered ==
  \E k \in 1..Len(PayloadsOf(Delivered)) : Malformed(PayloadsOf(Delivered)[k])

DoneDelivered == hasDone(PayloadsOf(Delivered))

\* C11: as long as no [DONE] was read and the server has not ended the
\* body, a payload that is not valid JSON leaves the session connected and
\* the read loop open with its next read pending, and the events dispatched
\* to onEvent are all the well-formed payloads of the complete lines read so
\* far, in order, those after the malformed one included.
C11_MalformedPayloadSkipped ==
  (MalformedDelivered /\ ~DoneDelivered /\ ~wire.ended)
    => /\ sse.connectionState = "connected"
       /\ streams[1].phase = "reading"
       /\ streams[1].read = "pending"
       /\ wire.dispatched = EventsOf(Delivered)

C11_Witness ==
  /\ ~DoneDelivered
  /\ ~wire.ended
  /\ streams[1].reads >= 2
  /\ Len(PayloadsOf(Delivered)) >= 2
  /\ Malformed(PayloadsOf(Delivered)[1])
  /\ isJSON(PayloadsOf(Delivered)[2])
  /\ wire.dispatched # <<>>
  /\ sse.connectionState = "connected"

\* C12 (as claimed): after a malformed payload was read the streaming
\* session's error is null and so is the error PromptQLChat hands to the UI.
C12_MalformedPayloadNoError ==
  MalformedDelivered => (sse.error = "null" /\ uiError = "null")

\* C13 (as claimed): once the whole body was read, whatever the split into
\* reads, the events dispatched are those of its complete data lines that
\* precede [DONE], in order.
C13_SplitIndependent ==
  wire.at = Len(wire.bytes) => wire.dispatched = EventsOf(wire.bytes)

LastCall(a) == a.calls[Len(a.calls)]

SendInFlight == \E k \in DOMAIN api.calls : api.calls[k].live /\ api.calls[k].kind # "cancel"

\* C1 (as claimed): no event of a stream torn down by disconnect() changes
\* the message list of PromptQLChat.
C1_NoLateMutation == InComponent => ~hist.lateMutation

\* C3: handleCancelMessage, in the step of the call itself and so before the
\* cancel request can settle, leaves isLoading false, the local, API and
\* streaming-session errors null and the streaming session disconnected with
\* its current reader cancelled; with a thread id the cancel request is then
\* in flight, without one no request is made.
C3_CancelIsSynchronous ==
  [][(InComponent /\ lastAction' = "Cancel" /\ ops' = ops + 1)
     => /\ ~chat'.isLoading
        /\ chat'.error = "null"
        /\ api'.error = "null"
        /\ sse'.error = "null"
        /\ sse'.connectionState = "disconnected"
        /\ sse'.readerRef = 0
        /\ sse.readerRef # 0 => streams'[sse.readerRef].read = "done"
        /\ IF persist.currentThreadId # NoThread
           THEN /\ Len(api'.calls) = Len(api.calls) + 1
                /\ LastCall(api').kind = "cancel"
           ELSE Len(api'.calls) = Len(api.calls)]_vars

C3_Witness ==
  /\ InComponent
  /\ lastAction = "Cancel"
  /\ lastArg = <<"loading">>
  /\ ~chat.isLoading
  /\ sse.connectionState = "disconnected"
  /\ api.calls # <<>>
  /\ LastCall(api).kind = "cancel"

\* C4 (as claimed): in PromptQLChat isLoading is true for as long as the
\* start/continue call of an accepted send is in flight.
C4_LoadingWhileSendInFlight == (InComponent /\ SendInFlight) => chat.isLoading

\* C5: a send with valid text that follows a new thread at once is
\* accepted and issues the start-thread call, without a thread id, and no
\* continue-thread call, whether or not a thread id was known and persisted
\* before the new thread.
C5_NewThreadThenSendStarts ==
  [][(/\ hist.fresh \in {"new_had_thread", "new_no_thread"}
      /\ lastAction' \in {"Send", "send_ignored"}
      /\ ops' = ops + 1
      /\ trim(lastArg') # <<>>)
     => /\ lastAction' = "Send"
        /\ Len(api'.calls) = Len(api.calls) + 1
        /\ SubSeq(api'.calls, 1, Len(api.calls)) = api.calls
        /\ LastCall(api').kind = "start"
        /\ LastCall(api').threadId = NoThread]_vars

C5_Witness ==
  /\ InComponent
  /\ hist.fresh = "sent_had_thread"
  /\ lastAction = "Send"
  /\ api.calls # <<>>
  /\ LastCall(api).kind = "start"
  /\ persist.currentThreadId = NoThread
  /\ persist.stored = NoThread

\* C6: an accepted send has text that is non-empty after trimming and, in
\* the step of the call with the start/continue request still in flight,
\* appends exactly one message to the end of the list, a user message whose
\* content is the trimmed text, and leaves the earlier messages as they were.
C6_OneTrimmedUserMessage ==
  [][(lastAction' = "Send" /\ ops' = ops + 1)
     => /\ trim(lastArg') # <<>>
        /\ Len(chat'.messages) = Len(chat.messages) + 1
        /\ SubSeq(chat'.messages, 1, Len(chat.messages)) = chat.messages
        /\ chat'.messages[Len(chat'.messages)].type = "user"
        /\ chat'.messages[Len(chat'.messages)].content = trim(lastArg')
        /\ Len(api'.calls) = Len(api.calls) + 1
        /\ LastCall(api').kind \in {"start", "continue"}
        /\ LastCall(api').live]_vars

C6_Witness ==
  /\ lastAction = "Send"
  /\ lastArg = <<" ", "h", " ">>
  /\ Len(chat.messages) >= 2
  /\ chat.messages[Len(chat.messages)].type = "user"
  /\ chat.messages[Len(chat.messages)].content = <<"h">>
  /\ SendInFlight

OpenReadLoops == {i \in DOMAIN streams : streams[i].phase = "reading"}

\* C2 (as claimed): in every reachable state of one useSSEConnection
\* instance at most one stream read loop is open.
C2_AtMostOneReadLoop == Cardinality(OpenReadLoops) <= 1

\* the ids the claim calls malformed, stated on the text of the id
WrongLength(id) == Len(id) # 36
MissingHyphen(id) == \E i \in HyphenAt : i <= Len(id) /\ id[i] # "-"
HasUppercase(id) == \E i \in 1..Len(id) : id[i] \in {"A", "F"}
HasNonHex(id) ==
  \E i \in 1..Len(id) : i \notin HyphenAt /\ id[i] \notin {"0", "9", "a", "f", "A", "F"}

Refused == sse.connectionState = "error" /\ sse.error # "null"

RECURSIVE ChunksOf(_)
ChunksOf(events) ==
  IF events = <<>> THEN <<>> ELSE Head(events).chunk \o ChunksOf(Tail(events))

TextEvent(e) == e.type = "t" /\ e.chunk # <<>>

FragmentEvent(e) == e.type = "c" /\ e.chunk # <<>>

StartsFresh == reducer.base = <<>> \/ Last(reducer.base).type # "assistant"

\* the step applies the event e to the list
Applies(e) == reducer'.events = Append(reducer.events, e)

\* C15: from a list that is empty or does not end with an assistant
\* message, n >= 1 text events with non-empty chunks and nothing between them
\* leave the earlier messages as they were and add one assistant message whose
\* content is the chunks concatenated in order of arrival.
C15_TextChunksConcatenate ==
  (/\ StartsFresh
   /\ reducer.events # <<>>
   /\ \A k \in DOMAIN reducer.events : TextEvent(reducer.events[k]))
    => /\ Len(reducer.messages) = Len(reducer.base) + 1
       /\ SubSeq(reducer.messages, 1, Len(reducer.base)) = reducer.base
       /\ Last(reducer.messages).type = "assistant"
       /\ Last(reducer.messages).content = ChunksOf(reducer.events)

C15_Witness ==
  /\ reducer.base = <<userMessage(0, <<"h">>)>>
  /\ Len(reducer.events) = 3
  /\ reducer.events[1].chunk = <<"b">>
  /\ reducer.events[2].chunk = <<"a">>
  /\ \A k \in DOMAIN reducer.events : TextEvent(reducer.events[k])
  /\ Last(reducer.messages).content = <<"b", "a">> \o reducer.events[3].chunk

\* C16: a text event with a non-empty chunk that arrives when the last
\* message is an assistant message with a code block or a query plan leaves
\* every message as it was and adds a new assistant message holding the chunk;
\* and a text event, a structured fragment and a text event, from a list that
\* does not end with an assistant message, add two assistant messages.
C16_TextAfterCodeBlockIsNewMessage ==
  /\ [][\A e \in Events :
          (/\ Applies(e)
           /\ TextEvent(e)
           /\ reducer.messages # <<>>
           /\ Last(reducer.messages).type = "assistant"
           /\ \/ \E b \in CodeBlockIds : Last(reducer.messages).code_blocks[b].present
              \/ Last(reducer.messages).query_plan)
          => /\ Len(reducer'.messages) = Len(reducer.messages) + 1
             /\ SubSeq(reducer'.messages, 1, Len(reducer.messages)) = reducer.messages
             /\ Last(reducer'.messages).type = "assistant"
             /\ Last(reducer'.messages).content = e.chunk]_vars
  /\ [](/\ StartsFresh
        /\ Len(reducer.events) = 3
        /\ TextEvent(reducer.events[1])
        /\ FragmentEvent(reducer.events[2])
        /\ TextEvent(reducer.events[3])
        => /\ Len(reducer.messages) = Len(reducer.base) + 2
           /\ reducer.messages[Len(reducer.base) + 1].content = reducer.events[1].chunk
           /\ reducer.messages[Len(reducer.base) + 1].code_blocks["b"].present
           /\ reducer.messages[Len(reducer.base) + 2].content = reducer.events[3].chunk)

C16_Witness ==
  /\ reducer.base = <<>>
  /\ Len(reducer.events) = 3
  /\ TextEvent(reducer.events[1])
  /\ FragmentEvent(reducer.events[2])
  /\ TextEvent(reducer.events[3])
  /\ Len(reducer.messages) = 2
  /\ reducer.messages[1].type = "assistant"
  /\ reducer.messages[2].type = "assistant"

\* C17: a structured-fragment event with a non-empty chunk, applied when
\* the last message is an assistant message, changes nothing but that
\* message's code block: its content stays as it was if it already ends with
\* the chunk and is the old content followed by the chunk otherwise, and the
\* block is marked streaming.
C17_FragmentRedeliveryIdempotent ==
  [][\A e \in Events :
       (/\ Applies(e)
        /\ FragmentEvent(e)
        /\ reducer.messages # <<>>
        /\ Last(reducer.messages).type = "assistant")
       => LET old == Last(reducer.messages).code_blocks["b"].content
          IN reducer'.messages =
               [reducer.messages EXCEPT
                  ![Len(reducer.messages)].code_blocks["b"] =
                     [present |-> TRUE,
                      content |-> IF endsWith(old, e.chunk) THEN old ELSE old \o e.chunk,
                      streaming |-> TRUE]]]_vars

C17_Witness ==
  /\ Len(reducer.events) = 3
  /\ reducer.events[1] = [type |-> "t", chunk |-> <<"a">>]
  /\ reducer.events[2] = [type |-> "c", chunk |-> <<"a", "b">>]
  /\ reducer.events[3] = [type |-> "c", chunk |-> <<"b">>]
  /\ Last(reducer.messages).code_blocks["b"].content = <<"a", "b">>
  /\ Last(reducer.messages).code_blocks["b"].streaming

DistinctTimes(t) ==
  \A i, j \in DOMAIN t : i # j => t[i].created_at # t[j].created_at

\* the messages a thread holds, each named by the time of its interaction
\* and its place in it (0: the user message, k: the k-th assistant entry)
HeldMessages(t) ==
  LET users == {10 * t[i].created_at : i \in {j \in DOMAIN t : t[j].user_message}}
      held(i) == {k \in DOMAIN t[i].assistant.entries :
                    \/ t[i].assistant.format = "assistant_messages"
                    \/ t[i].assistant.entries[k] = "completed"}
      assistants == UNION {{10 * t[i].created_at + k : k \in held(i)} : i \in DOMAIN t}
  IN users \cup assistants

\* C18: for interactions with distinct created_at, in whatever order the
\* array holds them, convertThreadToMessages returns one entry per user
\* message and per assistant message (per completed action in the API
\* format), grouped by interaction in ascending created_at, the user message
\* first and the assistant messages in array order; the thread's own array
\* is left in the order given.
C18_ConvertIsChronological ==
  (restored.done /\ DistinctTimes(restored.given))
    => /\ \A k \in 1..(Len(restored.messages) - 1) :
            restored.messages[k].id.n < restored.messages[k + 1].id.n
       /\ {restored.messages[k].id.n : k \in DOMAIN restored.messages}
            = HeldMessages(restored.given)
       /\ \A k \in DOMAIN restored.messages :
            restored.messages[k].type =
              (IF restored.messages[k].id.n % 10 = 0 THEN "user" ELSE "assistant")
       /\ restored.thread = restored.given

C18_Witness ==
  /\ restored.done
  /\ Len(restored.given) = 3
  /\ restored.given[1].created_at = 3
  /\ restored.given[2].created_at = 1
  /\ restored.given[3].created_at = 2
  /\ \A i \in 1..3 : restored.given[i].user_message
  /\ Len(restored.given[1].assistant.entries) = 2
  /\ Len(restored.messages) >= 5
  /\ restored.messages[1].id.n = 10

\* C19: a failure of the server-side cancel call is never exposed as the UI
\* error (the component's error prop, the headless hook's error) and never
\* handed to onError.
C19_CancelFailureNeverSurfaced ==
  /\ hist.reported # "cancel_failed"
  /\ InComponent => uiError # "cancel_failed"
  /\ InHook => chat.error # "cancel_failed"

\* C20: right after handleClearError the error prop of the component is null.
C20_ClearErrorLeavesNoError ==
  (InComponent /\ lastAction = "ClearError") => uiError = "null"

\* C21: the error prop is one object chosen by priority: the cancellation
\* confirmation while isCancelling, whatever the other sources hold; otherwise
\* the local error, else the API error; a streaming error is shown only when
\* no other source has an error and there is neither a cancellation under way
\* nor a recent one.
C21_ErrorPropPriority ==
  shown.done =>
    /\ shown.isCancelling => shown.prop = "CancellationConfirmation"
    /\ (~shown.isCancelling /\ shown.error # "null") => shown.prop = shown.error
    /\ (~shown.isCancelling /\ shown.error = "null" /\ shown.api.error # "null")
         => shown.prop = shown.api.error
    /\ shown.prop = shown.sse.error
         => \/ shown.sse.error = "null"
            \/ /\ ~shown.isCancelling /\ ~shown.hasRecentlyCancelled
               /\ shown.error = "null" /\ shown.api.error = "null"
               /\ shown.healthCheck.error = "null"
    /\ (/\ ~shown.isCancelling /\ ~shown.hasRecentlyCancelled
        /\ shown.error = "null" /\ shown.api.error = "null"
        /\ shown.healthCheck.error = "null") => shown.prop = shown.sse.error
    /\ shown.prop \in {"null", "CancellationConfirmation", shown.error, shown.api.error,
                       shown.healthCheck.error, shown.sse.error}

C21_Witness ==
  /\ shown.done
  /\ ~shown.isCancelling
  /\ shown.hasRecentlyCancelled
  /\ shown.error = "null"
  /\ shown.api.error = "null"
  /\ shown.healthCheck.error = "null"
  /\ shown.sse.error = "sse_error"
  /\ shown.prop = "null"

\* C22: right after startNewThread, in either orchestrator, the in-memory and
\* the stored thread id are cleared, the streaming session is disconnected
\* with no reader, the message list is empty and the loading, error and
\* cancelling flags are cleared.
C22_NewThreadResetsAll ==
  lastAction = "NewThread" =>
    /\ persist.currentThreadId = NoThread
    /\ persist.stored = NoThread
    /\ sse.connectionState = "disconnected"
    /\ sse.readerRef = 0
    /\ chat.messages = <<>>
    /\ ~chat.isLoading
    /\ chat.error = "null"
    /\ ~chat.isCancelling

\* C23: when the getThread call of the restoration has failed, the stored
\* thread id is cleared and the failure is neither the error prop nor handed
\* to onError.
C23_RestoreFailureSwallowed ==
  (lastAction = "RestoreResolved" /\ lastArg = <<"failed">>) =>
    /\ persist.stored = NoThread
    /\ uiError = "null"
    /\ hist.reported = "null"

\* C24: the step in which the start or continue call of a send fails sets
\* the error, leaves isLoading false, opens no streaming session (the hook's
\* state, its streams and the requests issued are untouched), stores no
\* thread id and leaves the message list, the optimistic user message
\* included, as it was.
C24_FailedSendStops ==
  [][(/\ lastAction' \in {"StartResolved", "ContinueResolved"}
      /\ lastArg' = <<"failed">>
      /\ Len(api'.calls) = Len(api.calls) - 1)
     => /\ chat'.error \in {"start_failed", "continue_failed"}
        /\ ~chat'.isLoading
        /\ sse' = sse
        /\ streams' = streams
        /\ fetchCount' = fetchCount
        /\ persist' = persist
        /\ chat'.messages = chat.messages]_vars

C24_Witness ==
  /\ lastAction = "StartResolved"
  /\ lastArg = <<"failed">>
  /\ chat.error = "start_failed"
  /\ ~chat.isLoading
  /\ Len(chat.messages) = 1
  /\ chat.messages[1].type = "user"
  /\ streams = <<>>
  /\ persist.currentThreadId = NoThread
  /\ persist.stored = NoThread

\* C25: a send whose text is empty or whitespace-only, or that is made
\* while isLoading is true, changes nothing: no message, no flag, no request.
C25_RejectedSendIsNoOp ==
  [][(/\ lastAction' \in {"Send", "send_ignored"}
      /\ ops' = ops + 1
      /\ (trim(lastArg') = <<>> \/ chat.isLoading))
     => UNCHANGED <<chat, api, persist, sse, streams, fetchCount>>]_vars

\* C26: once a code_block_query_plan_appended event has been dispatched,
\* isCodeExecuting is true for as long as the stream has bytes left to
\* deliver; the loading effect resets it, and only with the connection state
\* disconnected.
C26_CodeExecutingWhileStreaming ==
  /\ (codeEventIn(wire.dispatched) /\ wire.at < Len(wire.bytes)) => chat.isCodeExecuting
  /\ lastAction = "LoadingEffect"
       => (~chat.isCodeExecuting /\ sse.connectionState = "disconnected")

FailsValidation(id) == WrongLength(id) \/ MissingHyphen(id) \/ HasNonHex(id)

BadThreadId == request.op \in {"continue", "cancel", "get"} /\ FailsValidation(request.threadId)

BlankMessage == request.op \in {"start", "continue"} /\ trim(request.message) = <<>>

\* C27: a continueThread, cancelThread or getThread whose thread id fails the
\* format validation rejects with INVALID_THREAD, and a startThread or
\* continueThread whose message is blank rejects with VALIDATION_ERROR, in the
\* first step of the call: no fetch is issued and no attempt is repeated.
C27_InvalidArgumentsRefusedLocally ==
  (request.op # "none" /\ request.phase # "called" /\ (BadThreadId \/ BlankMessage))
    => /\ request.phase = "rejected"
       /\ request.fetches = 0
       /\ request.attempt = 0
       /\ request.error = IF BadThreadId THEN "INVALID_THREAD" ELSE "VALIDATION_ERROR"

C27_Witness ==
  /\ request.op = "continue"
  /\ request.threadId = IdLower
  /\ request.message = <<" ">>
  /\ request.phase = "rejected"
  /\ request.error = "VALIDATION_ERROR"
  /\ request.fetches = 0

\* the failure of the last fetch is of the transport class: a rejected
\* fetch, an HTTP 429 or an HTTP 5xx
TransportFailure ==
  \/ request.result.kind = "rejected"
  \/ request.result.kind = "http" /\ (request.result.status = 429 \/ request.result.status >= 500)

\* C28: a start, continue, cancel or get-thread call that rejects because of
\* a transport failure has been retried: more than one fetch was issued.
C28_TransportFailureRetried ==
  (request.op # "none" /\ request.phase = "rejected" /\ TransportFailure)
    => request.fetches > 1

\* the failure of the last fetch is one that is not retried
FinalFailure ==
  \/ request.result.kind = "abort"
  \/ request.result.kind = "http" /\ request.result.status \in {401, 404}

\* C29: a call through fetchWithRetry issues at most MAX_RETRIES + 1 = 4
\* fetches; when the fourth fails the call rejects in that step with that
\* failure's error; a fetch that fails with an authentication- or
\* validation-class response or with an abort rejects the call in that step,
\* so that no further fetch follows it; and, every fetch settling, the call
\* ends resolved or rejected.
C29_BoundedAttempts ==
  /\ <>(request.phase \in {"resolved", "rejected"})
  /\ [](request.op \in {"start", "continue", "cancel"}
          => /\ request.fetches <= 4
             /\ request.attempt <= MAX_RETRIES
             /\ request.phase = "waiting" => request.attempt < MAX_RETRIES
             /\ (/\ request.fetches = 4
                 /\ request.phase # "fetching"
                 /\ request.result.kind \in {"rejected", "abort", "http"})
                  => /\ request.phase = "rejected"
                     /\ request.error = caughtCode(thrownError(request.result))
             /\ (request.phase # "called" /\ FinalFailure)
                  => (request.phase = "rejected" /\ request.fetches = request.attempt + 1))
  /\ [][(request.op \in {"start", "continue", "cancel"} /\ request.phase = "rejected")
          => UNCHANGED request]_vars

C29_Witness ==
  /\ request.op = "start"
  /\ request.phase = "rejected"
  /\ request.fetches = 4
  /\ request.result.kind = "rejected"
  /\ request.error = "NETWORK_ERROR"

\* C30: the load effect of a mount sets currentThreadId to the stored value
\* when localStorage works and the value is present and passes the thread-id
\* validation; otherwise currentThreadId stays null; the stored value is left
\* as it is.
C30_LoadAdoptsOnlyValidStored ==
  [][lastAction' = "LoadEffect"
     => /\ mount.p.currentThreadId = NoThread
        /\ mount'.p.stored = mount.p.stored
        /\ mount'.p.currentThreadId =
             IF /\ mount.storage = "available"
                /\ mount.p.stored # <<>>
                /\ ~FailsValidation(mount.p.stored)
             THEN mount.p.stored
             ELSE NoThread]_vars

C30_Witness ==
  /\ lastAction = "LoadEffect"
  /\ mount.mounts = 2
  /\ mount.storage = "available"
  /\ mount.p.stored = IdNonHex
  /\ mount.p.currentThreadId = NoThread

\* no two messages of a list share an id
UniqueIds(messages) ==
  \A i, j \in 1..Len(messages) : messages[i].id = messages[j].id => i = j

\* C31: in every message list the reducer of PromptQLChat produces, from a
\* list with distinct ids and text and structured events of one assistant
\* action, no two messages have the same id.
C31_MessageIdsUnique == UniqueIds(reducer.messages)

\* C32: a text-chunk or structured-fragment event leaves the prior message
\* list, its messages and their code-block maps as they were: after the
\* reducer step the prior state reads what it read before the step.
C32_ReducerLeavesPriorState ==
  reducer.events # <<>> => reducer.prevNow = reducer.prev

\* disconnect() has just run while the fetch of the latest connect() is in flight
FetchInFlightDropped ==
  /\ lastAction = "disconnect"
  /\ streams # <<>>
  /\ streams[Len(streams)].phase = "fetching"

\* C33: when disconnect() was called while the fetch of the latest connect()
\* is still in flight, the step that follows (that fetch settling included)
\* leaves the session disconnected and starts no read loop, unless it is a
\* new connect().
C33_DisconnectDuringFetchStays ==
  [][(FetchInFlightDropped /\ lastAction' # "connect")
       => /\ sse'.connectionState = "disconnected"
          /\ streams'[Len(streams)].phase # "reading"]_vars

\* a step of the read loop of a stream that is not the latest
EarlierStreamActs ==
  /\ lastAction' \in {"StreamChunk", "StreamEnd", "StreamFail", "StreamCancelled"}
  /\ \E i \in 1..(Len(streams) - 1) : streams'[i] # streams[i]

\* C34: while the session of the latest connect() is connecting or connected,
\* a step of an earlier stream's read loop (its end, its [DONE], its cleanup)
\* neither sets connectionState to disconnected nor clears the reader
\* reference held for the latest stream.
C34_TornDownLeavesNewer ==
  [][(EarlierStreamActs /\ sse.connectionState \in {"connecting", "connected"})
       => /\ sse'.connectionState # "disconnected"
          /\ sse.readerRef = Len(streams) => sse'.readerRef = sse.readerRef]_vars

\* a new thread was started and the sends issued before it are still pending
NewThreadWhileSending ==
  /\ InComponent
  /\ persist.currentThreadId = NoThread
  /\ chat.messages = <<>>
  /\ api.calls # <<>>
  /\ \A k \in DOMAIN api.calls : api.calls[k].kind # "cancel" /\ ~api.calls[k].live

\* C35: when a new thread was started in PromptQLChat while the start or
\* continue call of a send was pending, the step in which that call resolves
\* leaves the thread id cleared, opens no streaming session and leaves the
\* message list empty.
C35_NewThreadOutlivesPendingSend ==
  [][(NewThreadWhileSending /\ lastAction' \in {"StartResolved", "ContinueResolved"})
       => /\ persist'.currentThreadId = NoThread
          /\ streams' = streams
          /\ chat'.messages = <<>>]_vars

\* C36: restoration never replaces a non-empty message list: when the list
\* holds a message at the time api.getThread resolves, the list is the same
\* after restoreThread resumed.
C36_RestoreKeepsNonEmptyList ==
  [][(lastAction' = "RestoreResolved" /\ chat.messages # <<>>)
       => chat'.messages = chat.messages]_vars

\* the errors a failed send leaves
SendErrors == {"start_failed", "continue_failed"}

\* a send issued after the cancel has just failed, the 3 s timer pending
SendFailedInGrace ==
  /\ InComponent
  /\ hist.liveFailure
  /\ lastAction \in {"StartResolved", "ContinueResolved"}
  /\ lastArg = <<"failed">>
  /\ chat.timers > 0

\* the failed send's error is the error shown
C37_SendErrorShownInGrace == SendFailedInGrace => uiError = chat.error

\* the timer leaves the failed send's error in place and shown
C37_TimerKeepsSendError ==
  [][(/\ InComponent
      /\ lastAction' = "GraceTimer"
      /\ hist.liveFailure
      /\ chat.error \in SendErrors)
       => /\ chat'.error = chat.error
          /\ uiError' = chat.error]_vars

\* C37: the 3 s timer of a cancellation leaves a later send's failure alone:
\* when a send of PromptQLChat fails while the timer is pending, its error is
\* the error shown, and it is still the error shown after the timer fired.
C37_GraceTimerOwnCancellationOnly ==
  /\ []C37_SendErrorShownInGrace
  /\ C37_TimerKeepsSendError

\* nothing is pending: only a user's action changes the state
Quiescent ==
  /\ api.calls = <<>>
  /\ \A i \in DOMAIN streams : streams[i].phase = "ended"
  /\ ~MicrotaskPending
  /\ ~EffectDue
  /\ chat.timers = 0
  /\ sse.timers = 0

\* C38: every accepted send of PromptQLChat is followed, once its network
\* call and its stream have completed or failed, by a state with isLoading
\* false, without a cancel or a new thread. A state in which every call has
\* settled, every stream has ended, no timer, microtask or effect is pending
\* changes only by a user's action: there isLoading is false, in particular
\* when the streaming session has ended in the error state.
C38_SendEventuallyStopsLoading ==
  (InComponent /\ Quiescent /\ sse.connectionState = "error") => ~chat.isLoading

\* C39: with localStorage available, after a call of setCurrentThreadId or
\* clearStoredThread the value stored under the key and the in-memory
\* currentThreadId agree: both absent, or both the same id.
C39_StoredAgreesWithMemory ==
  (mount.loaded /\ mount.storage = "available" /\ lastAction = "SetThreadId")
    => mount.p.stored = mount.p.currentThreadId

\* C39 as the code has it: with localStorage available, a call with an id
\* that passes validation, or with null, leaves the stored value and the
\* in-memory id equal to the argument; a call with an id that fails
\* validation sets the in-memory id and leaves the stored value as it was.
C39_ValidIdStoredAgrees ==
  [][(mount.storage = "available" /\ lastAction' = "SetThreadId")
       => /\ mount'.p.currentThreadId = lastArg'
          /\ mount'.p.stored = IF lastArg' = NoThread \/ isValidThreadId(lastArg')
                               THEN lastArg' ELSE mount.p.stored]_vars

C39_Witness ==
  /\ lastAction = "SetThreadId"
  /\ mount.storage = "available"
  /\ lastArg = IdLower
  /\ mount.p = [currentThreadId |-> IdLower, stored |-> IdLower]

\* C40: for the same streamed events, applied to the same message list, the
\* headless hook exposes the messages the component exposes: structured
\* fragments attach code blocks and split later text into a new message.
C40_HookMessagesAsComponent ==
  hookEventsOf(reducer.base, reducer.events) = reducer.messages

\* what a caller of the hook can tell of its state
Observed(s) == <<s.connectionState, s.error, s.readerRef, s.isCancellingRef>>

\* C14: disconnect(), from whatever state, leaves connectionState =
\* disconnected, error = null and no reader held, and a second disconnect()
\* right after it would leave the same connectionState, error, reader
\* reference and cancelling flag and the same streams.
C14_DisconnectIdempotent ==
  [][(lastAction' = "disconnect" /\ ops' = ops + 1)
     => /\ sse'.connectionState = "disconnected"
        /\ sse'.error = "null"
        /\ sse'.readerRef = 0
        /\ Observed(disconnect(sse')) = Observed(sse')
        /\ cancelReader(streams', sse'.readerRef) = streams']_vars

C14_Witness ==
  /\ lastAction = "disconnect"
  /\ lastArg = <<"disconnect">>
  /\ sse.connectionState = "disconnected"
  /\ sse.timers >= 2
  /\ streams # <<>>

\* C8 (as claimed): once a [DONE] payload is read the read loop stops and no
\* payload that follows it, in the same read or a later one, reaches onEvent.
C8_DoneEndsStream ==
  \A i \in DOMAIN streams :
    streams[i].sawDone => streams[i].phase = "ended" /\ ~streams[i].doneDispatch

\* C9 (as claimed): when the event endpoint answers with a non-success
\* status or a null body, or the fetch rejects, connect() ends with
\* connectionState = error and a stored error.
C9_FailedFetchIsError ==
  (lastAction = "FetchResponse" /\ lastArg # <<"ok">>)
    => (sse.connectionState = "error" /\ sse.error # "null")

\* C10 (as claimed): a failure of the stream read not caused by a deliberate
\* disconnect() of that stream sets connectionState to error and stores it.
C10_ReadFailureIsError ==
  (lastAction = "StreamFail" /\ lastArg = <<"live">>)
    => (sse.connectionState = "error" /\ sse.error = "stream")

====
